---------------------------- MODULE Spec2Model ----------------------------
(***************************************************************************)
(* Combinational-circuit hazard and race analysis: the Circuit model       *)
(* (backend/app/models/circuit.py), the expression parser                  *)
(* (backend/app/services/parser.py) and the HazardDetector                 *)
(* (backend/app/services/detector.py).                                     *)
(*                                                                         *)
(* Delays are real numbers of nanoseconds in the source; here they are     *)
(* integers counting tenths of a nanosecond (0.1 ns = 1, 0.5 ns = 5).      *)
(* Python dicts keep insertion order, so every dict is a sequence here.    *)
(***************************************************************************)
EXTENDS Integers, Sequences, FiniteSets, TLC

VARIABLES
    gates,          \* Circuit.gates: sequence of [id, type, delay, inputs, none]
    inputs,         \* Circuit.inputs: sequence of [id, name, initial_value]
    outputs,        \* Circuit.outputs: sequence of [id, name, source]
    connections,    \* Circuit.connections: sequence of [from, to, delay]
    sealed,         \* TRUE once construction of the circuit is over
    profile,        \* the delays the constructed gates and wires are given
    det_paths,      \* HazardDetector.paths: node id -> list of paths (the memo)
    det_result,     \* what detect_hazards returned last, or NoResult
    comp_result,    \* what compute_circuit (or another operation called on its own)
                    \* returned last, with the arguments of the call; the call under
                    \* way where the operations are taken step by step; or NoResult
    expression,     \* the expression given to CircuitParser.parse, as a sequence of words
    gate_id_counter,\* CircuitParser.gate_id_counter
    parse_result,   \* how parse ended last, or NoResult
    description,    \* the dict given to Circuit.from_dict, or NoResult
    built           \* how Circuit.from_dict ended last, or NoResult

vars == <<gates, inputs, outputs, connections, sealed, profile, det_paths, det_result,
          comp_result, expression, gate_id_counter, parse_result, description, built>>

parser_vars == <<expression, gate_id_counter, parse_result>>

description_vars == <<description, built>>

----------------------------------------------------------------------------
(* Bounds of the model *)

\* most gates a constructed circuit holds
MaxGates == 2
\* most words an expression given to the parser holds
MaxWords == 4

(* Program constants *)

\* detector.py:147  max_depth = 100
max_depth == 100
\* detector.py:78   abs(delay1 - delay2) < 0.5
RaceThreshold == 5
\* parser.py:184    NOT gate delay 1.0
NotDelay == 10
\* parser.py:193    AND/OR gate delay 2.0 (test_detector.py:17 too)
AndDelay == 20
\* test_detector.py:78  OR gate delay 1.5
OrDelay == 15
\* parser.py:186    connection delay 0.1
WireDelay == 1

\* the ids of the primary inputs a circuit is built over, and their names
InputIds == <<"a", "b">>
InputNames == <<"A", "B">>
\* delays of the wire into the second port of a two-input gate
\* (test_detector.py:22 uses 0.5; spec section 8 uses 0.5 and 0.7)
SecondWireDelays == {1, 5, 7}
GateTypes == {"AND", "OR", "NOT"}

NoResult == [kind |-> "none"]

----------------------------------------------------------------------------
(* Generic helpers on sequences *)

SeqToSet(s) == {s[i] : i \in DOMAIN s}

RECURSIVE ConcatAll(_)
ConcatAll(ss) ==
    IF ss = <<>> THEN <<>> ELSE Head(ss) \o ConcatAll(Tail(ss))

RECURSIVE SumSeq(_)
SumSeq(s) ==
    IF s = <<>> THEN 0 ELSE Head(s) + SumSeq(Tail(s))

RECURSIVE MaxSeq(_)
MaxSeq(s) ==
    IF Len(s) = 1 THEN s[1]
    ELSE LET m == MaxSeq(Tail(s)) IN IF s[1] >= m THEN s[1] ELSE m

Abs(x) == IF x < 0 THEN -x ELSE x

\* position of the first occurrence of x in s (list.index), 0 when absent
IndexOf(s, x) ==
    IF x \in SeqToSet(s) THEN CHOOSE i \in DOMAIN s : s[i] = x /\ \A j \in 1..(i-1) : s[j] # x
    ELSE 0

\* the distinct elements of s in the order of their first occurrence
\* (the key order of a dict filled by iterating s)
RECURSIVE DictKeys(_)
DictKeys(s) ==
    IF s = <<>> THEN <<>>
    ELSE LET front == DictKeys(SubSeq(s, 1, Len(s) - 1))
             last == s[Len(s)]
         IN IF last \in SeqToSet(front) THEN front ELSE Append(front, last)

----------------------------------------------------------------------------
(* The Circuit object *)

Circuit == [gates |-> gates, inputs |-> inputs, outputs |-> outputs,
            connections |-> connections]

GateIdSet(c) == {c.gates[i].id : i \in DOMAIN c.gates}
InputIdSet(c) == {c.inputs[i].id : i \in DOMAIN c.inputs}

\* self.circuit.gates[gate_id]
GateOf(c, gate_id) == c.gates[CHOOSE i \in DOMAIN c.gates : c.gates[i].id = gate_id]

InputOf(c, input_id) == c.inputs[CHOOSE i \in DOMAIN c.inputs : c.inputs[i].id = input_id]

\* LogicGate(gate_id, gate_type, delay, inputs, output); none marks a gate whose
\* inputs attribute is None (a description with "inputs": null)
LogicGate(gate_id, gate_type, delay, ins) ==
    [id |-> gate_id, type |-> gate_type, delay |-> delay, inputs |-> ins, none |-> FALSE]

add_gate(c, gate) == [c EXCEPT !.gates = Append(@, gate)]

add_input(c, input_id, name, initial_value) ==
    [c EXCEPT !.inputs = Append(@, [id |-> input_id, name |-> name,
                                    initial_value |-> initial_value])]

add_output(c, output_id, name, source) ==
    [c EXCEPT !.outputs = Append(@, [id |-> output_id, name |-> name, source |-> source])]

add_connection(c, from_id, to_id, delay) ==
    [c EXCEPT !.connections = Append(@, [from |-> from_id, to |-> to_id, delay |-> delay])]

EmptyCircuit == [gates |-> <<>>, inputs |-> <<>>, outputs |-> <<>>, connections |-> <<>>]

----------------------------------------------------------------------------
(* Kahn's algorithm: Circuit._topological_sort and the detector's copy of it *)

\* graph[gate_id]: the targets of the gate-to-gate connections leaving gate_id,
\* in connection order
Neighbors(c, gate_id) ==
    LET cs == SelectSeq(c.connections,
                        LAMBDA conn : conn.from = gate_id /\ conn.from \in GateIdSet(c)
                                      /\ conn.to \in GateIdSet(c))
    IN [i \in DOMAIN cs |-> cs[i].to]

InDegree(c) ==
    [g \in GateIdSet(c) |->
        Cardinality({i \in DOMAIN c.connections :
                        /\ c.connections[i].to = g
                        /\ c.connections[i].from \in GateIdSet(c)})]

\* for neighbor in graph[gate_id]: in_degree[neighbor] -= 1; enqueue at zero
RECURSIVE Relax(_, _, _)
Relax(nbrs, in_degree, queue) ==
    IF nbrs = <<>> THEN [in_degree |-> in_degree, queue |-> queue]
    ELSE LET n == Head(nbrs)
             d == [in_degree EXCEPT ![n] = @ - 1]
         IN Relax(Tail(nbrs), d, IF d[n] = 0 THEN Append(queue, n) ELSE queue)

RECURSIVE KahnLoop(_, _, _, _)
KahnLoop(c, queue, in_degree, sorted_gates) ==
    IF queue = <<>> THEN sorted_gates
    ELSE LET gate_id == Head(queue)
             r == Relax(Neighbors(c, gate_id), in_degree, Tail(queue))
         IN KahnLoop(c, r.queue, r.in_degree, Append(sorted_gates, gate_id))

\* faulty variant of ZeroDegreeQueue: every gate starts in the queue
ZeroDegreeQueueAll(c, in_degree) ==
    [i \in DOMAIN c.gates |-> c.gates[i].id]

\* queue = [gate_id for gate_id, degree in in_degree.items() if degree == 0]
ZeroDegreeQueue(c, in_degree) ==
    SelectSeq([i \in DOMAIN c.gates |-> c.gates[i].id], LAMBDA g : in_degree[g] = 0)

\* faulty variant of SortOutcome: the length of the order is not checked
SortOutcomeUnchecked(c, sorted_gates) ==
    [ok |-> TRUE, val |-> sorted_gates]

\* if len(sorted_gates) != len(self.gates): raise ValueError
SortOutcome(c, sorted_gates) ==
    IF Len(sorted_gates) # Len(c.gates)
    THEN [ok |-> FALSE, val |-> <<>>]
    ELSE [ok |-> TRUE, val |-> sorted_gates]

SortFrom(c, in_degree) ==
    SortOutcome(c, KahnLoop(c, ZeroDegreeQueue(c, in_degree), in_degree, <<>>))

\* [ok |-> TRUE, val |-> order], or [ok |-> FALSE] for the ValueError on a cycle
_topological_sort(c) == SortFrom(c, InDegree(c))

Reverse(s) == [i \in DOMAIN s |-> s[Len(s) + 1 - i]]

\* faulty variant of ReverseOutcome: the forward order is kept
ReverseOutcomeKept(forward_sort) == forward_sort

ReverseOutcome(forward_sort) ==
    IF forward_sort.ok THEN [ok |-> TRUE, val |-> Reverse(forward_sort.val)]
    ELSE forward_sort

_reverse_topological_sort(c) == ReverseOutcome(_topological_sort(c))

----------------------------------------------------------------------------
(* Path explorer: HazardDetector._find_all_paths_to_gate and _calculate_path_delay *)

RECURSIVE dfs(_, _, _, _, _)
RECURSIVE dfs_connections(_, _, _, _, _, _)

\* the nested dfs(current, path, depth): the paths it appends, in order
dfs(c, current, path, depth, visited) ==
    IF depth > max_depth THEN <<>>
    ELSE IF current \in InputIdSet(c) THEN <<path>>
    ELSE IF current \in visited THEN <<>>
    ELSE dfs_connections(c, current, path, depth, visited \cup {current}, 1)

\* faulty variant of dfs_connections: the search follows the first connection into
\* the current node and leaves the other branches out
dfs_connectionsFirstOnly(c, current, path, depth, visited, i) ==
    IF i > Len(c.connections) THEN <<>>
    ELSE IF c.connections[i].to = current
    THEN dfs(c, c.connections[i].from, <<c.connections[i].from>> \o path, depth + 1, visited)
    ELSE dfs_connections(c, current, path, depth, visited, i + 1)

\* for conn in self.circuit.connections: if conn["to"] == current: dfs(...)
dfs_connections(c, current, path, depth, visited, i) ==
    IF i > Len(c.connections) THEN <<>>
    ELSE LET conn == c.connections[i]
             here == IF conn.to = current
                     THEN dfs(c, conn.from, <<conn.from>> \o path, depth + 1, visited)
                     ELSE <<>>
         IN here \o dfs_connections(c, current, path, depth, visited, i + 1)

\* memoised in self.paths (cache)
_find_all_paths_to_gate(c, cache, gate_id) ==
    IF gate_id \in DOMAIN cache THEN cache[gate_id]
    ELSE dfs(c, gate_id, <<gate_id>>, 0, {})

\* the connection delay between two consecutive path nodes: the first matching
\* connection, 0 when there is none
ConnectionDelay(c, from_id, to_id) ==
    LET cs == SelectSeq(c.connections, LAMBDA conn : conn.from = from_id /\ conn.to = to_id)
    IN IF cs = <<>> THEN 0 ELSE cs[1].delay

\* faulty variant of _calculate_path_delay: the connection delays are left out
PathDelayGatesOnly(c, path) ==
    SumSeq([i \in DOMAIN path |->
               IF path[i] \in GateIdSet(c) THEN GateOf(c, path[i]).delay ELSE 0])

_calculate_path_delay(c, path) ==
    LET gate_delays == [i \in DOMAIN path |->
                           IF path[i] \in GateIdSet(c) THEN GateOf(c, path[i]).delay ELSE 0]
        conn_delays == [i \in 1..(Len(path) - 1) |-> ConnectionDelay(c, path[i], path[i + 1])]
    IN SumSeq(gate_delays) + SumSeq(conn_delays)

----------------------------------------------------------------------------
(* Race detector: _calculate_input_delays and _detect_race_conditions *)

\* the dict input id -> delay, as a sequence of [id, delay] in key order
\* max_delay = max(max_delay, path_delay) over the paths, 0 when there is none
MaxPathDelay(c, paths) ==
    IF paths # <<>>
    THEN MaxSeq([i \in DOMAIN paths |-> _calculate_path_delay(c, paths[i])])
    ELSE 0

InputDelaysOf(c, cache, keys) ==
    [i \in DOMAIN keys |->
        [id |-> keys[i],
         delay |-> MaxPathDelay(c, _find_all_paths_to_gate(c, cache, keys[i]))]]

_calculate_input_delays(c, cache, gate) == InputDelaysOf(c, cache, DictKeys(gate.inputs))

\* the double loop over the entries i < j of input_delays (here d)
RacePairs(gate, d) ==
    LET PairsFrom(i) ==
            LET js == SelectSeq([k \in 1..(Len(d) - i) |-> i + k],
                                LAMBDA j : Abs(d[i].delay - d[j].delay) < RaceThreshold)
            IN [k \in DOMAIN js |->
                   [gate_id |-> gate.id, gate_type |-> gate.type,
                    input1 |-> d[i].id, input2 |-> d[js[k]].id,
                    delay1 |-> d[i].delay, delay2 |-> d[js[k]].delay]]
    IN ConcatAll([i \in DOMAIN d |-> PairsFrom(i)])

\* the records appended for one gate
RaceRecordsOfGate(c, cache, gate) ==
    IF Len(gate.inputs) > 1
    THEN RacePairs(gate, _calculate_input_delays(c, cache, gate))
    ELSE <<>>

\* [ok |-> TRUE, val |-> records]; [ok |-> FALSE] when len(gate.inputs) raises on a
\* gate whose inputs attribute is None
_detect_race_conditions(c, cache) ==
    IF \E i \in DOMAIN c.gates : c.gates[i].none
    THEN [ok |-> FALSE, val |-> <<>>]
    ELSE [ok |-> TRUE,
          val |-> ConcatAll([i \in DOMAIN c.gates |-> RaceRecordsOfGate(c, cache, c.gates[i])])]

----------------------------------------------------------------------------
(* Symbolic hazard detector.  A symbolic value is "0", "1", "X" (the            *)
(* SpecialVariable of the analysed variable) or "~X" (its NegatedVariable): one *)
(* pass has a single special variable, so its id is not carried.  Hazard kinds  *)
(* are written static-0, static-1 and dynamic; the description texts of the     *)
(* records are left out.                                                        *)

IsRegular(v) == v \in {"0", "1"}

\* _find_variable_paths: the paths to the output sources that contain var_id
_find_variable_paths(c, cache, var_id) ==
    ConcatAll([o \in DOMAIN c.outputs |->
        SelectSeq(_find_all_paths_to_gate(c, cache, c.outputs[o].source),
                  LAMBDA path : var_id \in SeqToSet(path))])

\* the NOT gates a connection leads to directly from input_id, in connection order
DirectNotGates(c, input_id) ==
    LET cs == SelectSeq(c.connections,
                        LAMBDA conn : /\ conn.from = input_id
                                      /\ conn.to \in GateIdSet(c)
                                      /\ GateOf(c, conn.to).type = "NOT")
    IN [i \in DOMAIN cs |-> cs[i].to]

\* the record built for one input that has a direct NOT gate
InfoRecord(inp, direct_not_gates, negation_paths, original_paths) ==
    LET original_gates == UNION {SeqToSet(original_paths[i]) : i \in DOMAIN original_paths}
        negation_gates == UNION {SeqToSet(negation_paths[i]) : i \in DOMAIN negation_paths}
        exclude_gates == {inp.id} \cup SeqToSet(direct_not_gates)
        common_gates == (original_gates \cap negation_gates) \ exclude_gates
    IN [variable |-> inp.name, id |-> inp.id,
        negation_paths |-> negation_paths, original_paths |-> original_paths,
        direct_not_gates |-> direct_not_gates,
        has_convergence |-> common_gates # {},
        convergence_points |-> common_gates]

\* the split of var_paths by the node that follows the variable on the path
SplitPaths(inp, direct_not_gates, var_paths) ==
    LET HasNext(path) == IndexOf(path, inp.id) < Len(path)
        NextGate(path) == path[IndexOf(path, inp.id) + 1]
    IN InfoRecord(inp, direct_not_gates,
           SelectSeq(var_paths, LAMBDA path :
               HasNext(path) /\ NextGate(path) \in SeqToSet(direct_not_gates)),
           SelectSeq(var_paths, LAMBDA path :
               HasNext(path) /\ NextGate(path) \notin SeqToSet(direct_not_gates)))

\* faulty variant of VariableInfo: the name is the one the loop variable was left with,
\* that of the last input
VariableInfoLastName(c, cache, inp) ==
    SplitPaths([inp EXCEPT !.name = c.inputs[Len(c.inputs)].name],
               DirectNotGates(c, inp.id), _find_variable_paths(c, cache, inp.id))

VariableInfo(c, cache, inp) ==
    SplitPaths(inp, DirectNotGates(c, inp.id), _find_variable_paths(c, cache, inp.id))

_find_variables_with_negation(c, cache) ==
    LET candidates == SelectSeq(c.inputs, LAMBDA inp : DirectNotGates(c, inp.id) # <<>>)
    IN [i \in DOMAIN candidates |-> VariableInfo(c, cache, candidates[i])]

RECURSIVE Pow2(_)
Pow2(n) == IF n = 0 THEN 1 ELSE 2 * Pow2(n - 1)

\* _generate_all_input_combinations: combination i gives input j the bit (i >> j) & 1
_generate_all_input_combinations(input_ids) ==
    [k \in 1..Pow2(Len(input_ids)) |->
        [id \in SeqToSet(input_ids) |->
            ((k - 1) \div Pow2(IndexOf(input_ids, id) - 1)) % 2]]

\* input_port_to_source: each connection into the gate, in order, is given to the
\* first port that has no source yet
RECURSIVE AssignPorts(_, _, _)
AssignPorts(ports, sources, assigned) ==
    IF sources = <<>> THEN assigned
    ELSE LET free == SelectSeq(ports, LAMBDA port :
                         \A k \in DOMAIN assigned : assigned[k].port # port)
         IN AssignPorts(ports, Tail(sources),
                        IF free = <<>> THEN assigned
                        ELSE Append(assigned, [port |-> free[1], source |-> Head(sources)]))

\* _collect_gate_inputs: the dict port -> value, as a sequence of [port, value]
_collect_gate_inputs(c, gate_id, circuit_state) ==
    LET gate == GateOf(c, gate_id)
        cs == SelectSeq(c.connections, LAMBDA conn : conn.to = gate_id)
        input_port_to_source == AssignPorts(gate.inputs, [i \in DOMAIN cs |-> cs[i].from], <<>>)
    IN [i \in DOMAIN input_port_to_source |->
           [port |-> input_port_to_source[i].port,
            value |-> IF input_port_to_source[i].source \in DOMAIN circuit_state
                      THEN circuit_state[input_port_to_source[i].source]
                      ELSE "0"]]

\* gate_inputs.get(port, 0)
GetInput(gate_inputs, port) ==
    IF \E i \in DOMAIN gate_inputs : gate_inputs[i].port = port
    THEN gate_inputs[CHOOSE i \in DOMAIN gate_inputs : gate_inputs[i].port = port].value
    ELSE "0"

HazardKind(gate_type) ==
    IF gate_type = "AND" THEN "static-0"
    ELSE IF gate_type = "OR" THEN "static-1"
    ELSE "dynamic"

\* _check_gate_for_hazard: the hazard kind, or "" for None
_check_gate_for_hazard(gate, gate_inputs) ==
    IF Len(gate.inputs) < 2 THEN ""
    ELSE IF /\ \E i \in DOMAIN gate_inputs : gate_inputs[i].value = "X"
            /\ \E i \in DOMAIN gate_inputs : gate_inputs[i].value = "~X"
    THEN HazardKind(gate.type)
    ELSE ""

\* inputs = [gate_inputs.get(port, 0) for port in gate.inputs]
PortValues(gate, gate_inputs) ==
    [i \in DOMAIN gate.inputs |-> GetInput(gate_inputs, gate.inputs[i])]

\* whether each port of the gate is a key of gate_inputs
PortPresent(gate, gate_inputs) ==
    [i \in DOMAIN gate.inputs |->
        \E k \in DOMAIN gate_inputs : gate_inputs[k].port = gate.inputs[i]]

\* the AND branch and, with zero and one swapped, the OR branch of
\* _compute_special_gate_output
DominatedOutput(vals, present, dominant, neutral) ==
    LET has_special == \E i \in DOMAIN vals : vals[i] = "X"
        has_negated == \E i \in DOMAIN vals : vals[i] = "~X"
        all_regular_neutral ==
            \A i \in DOMAIN vals : (present[i] /\ IsRegular(vals[i])) => vals[i] = neutral
    IN IF \E i \in DOMAIN vals : vals[i] = dominant THEN dominant
       ELSE IF has_special /\ has_negated THEN dominant
       ELSE IF all_regular_neutral
            THEN IF has_special /\ ~has_negated THEN "X"
                 ELSE IF has_negated /\ ~has_special THEN "~X"
                 ELSE IF ~has_special /\ ~has_negated THEN neutral
                 ELSE dominant
       ELSE dominant

\* the NOT branch of _compute_special_gate_output
NegatedOutput(input_value) ==
    IF input_value = "X" THEN "~X"
    ELSE IF input_value = "~X" THEN "X"
    ELSE IF input_value = "0" THEN "1" ELSE "0"

_compute_special_gate_output(gate, gate_inputs) ==
    IF gate.type = "NOT"
    THEN IF Len(gate.inputs) # 1 THEN "0"
         ELSE NegatedOutput(GetInput(gate_inputs, gate.inputs[1]))
    ELSE IF gate.type \in {"AND", "OR"}
    THEN DominatedOutput(PortValues(gate, gate_inputs), PortPresent(gate, gate_inputs),
                         IF gate.type = "AND" THEN "0" ELSE "1",
                         IF gate.type = "AND" THEN "1" ELSE "0")
    ELSE "0"

RECURSIVE SimulateGates(_, _, _, _)

\* one turn of the second loop of _analyze_hazard_with_special_variable
SimulateGate(c, order, circuit_state, hazard_gates, gate, gate_inputs, hazard_detected) ==
    SimulateGates(c, Tail(order),
                  [n \in DOMAIN circuit_state \cup {gate.id} |->
                      IF n = gate.id THEN _compute_special_gate_output(gate, gate_inputs)
                      ELSE circuit_state[n]],
                  IF hazard_detected # ""
                  THEN Append(hazard_gates,
                              [gate_id |-> gate.id, gate_type |-> gate.type,
                               inputs |-> gate.inputs, hazard_type |-> hazard_detected])
                  ELSE hazard_gates)

CheckGate(c, order, circuit_state, hazard_gates, gate, gate_inputs) ==
    SimulateGate(c, order, circuit_state, hazard_gates, gate, gate_inputs,
                 _check_gate_for_hazard(gate, gate_inputs))

\* the second loop of _analyze_hazard_with_special_variable: the hazard_gates list
SimulateGates(c, order, circuit_state, hazard_gates) ==
    IF order = <<>> THEN hazard_gates
    ELSE CheckGate(c, order, circuit_state, hazard_gates, GateOf(c, Head(order)),
                   _collect_gate_inputs(c, Head(order), circuit_state))

\* circuit_state = {var_id: SpecialVariable(...)} and the other inputs' constants
InitialState(var_id, other_inputs) ==
    [n \in DOMAIN other_inputs \cup {var_id} |->
        IF n = var_id THEN "X"
        ELSE IF other_inputs[n] = 1 THEN "1" ELSE "0"]

\* what _analyze_hazard_with_special_variable returns: found tells a record from None
AnalysisOutcome(variable_name, other_inputs, hazard_gates) ==
    IF hazard_gates # <<>>
    THEN [ok |-> TRUE, found |-> TRUE,
          val |-> [variable |-> variable_name, other_inputs |-> other_inputs,
                   hazard_type |-> hazard_gates[1].hazard_type,
                   hazard_gates |-> hazard_gates]]
    ELSE [ok |-> TRUE, found |-> FALSE, val |-> <<>>]

AnalyzeSorted(c, var_id, variable_name, other_inputs, sorted_gates) ==
    IF ~sorted_gates.ok \/ (\E i \in DOMAIN c.gates : c.gates[i].none)
    THEN [ok |-> FALSE, found |-> FALSE, val |-> <<>>]
    ELSE AnalysisOutcome(variable_name, other_inputs,
             SimulateGates(c, sorted_gates.val, InitialState(var_id, other_inputs), <<>>))

\* [ok |-> FALSE] when the sort raises on a cycle or len(gate.inputs) raises on a
\* gate whose inputs attribute is None
_analyze_hazard_with_special_variable(c, var_id, variable_name, other_inputs) ==
    AnalyzeSorted(c, var_id, variable_name, other_inputs, _reverse_topological_sort(c))

\* other_inputs = [inp for inp in self.circuit.inputs.keys() if inp != var_id]
OtherInputs(c, var_id) ==
    SelectSeq([i \in DOMAIN c.inputs |-> c.inputs[i].id], LAMBDA inp : inp # var_id)

\* the records of the runs that returned one
CollectRuns(runs) ==
    LET hits == SelectSeq(runs, LAMBDA r : r.found)
    IN [ok |-> \A k \in DOMAIN runs : runs[k].ok,
        val |-> [k \in DOMAIN hits |-> hits[k].val]]

RunCombinations(c, var_info, input_combinations) ==
    CollectRuns([k \in DOMAIN input_combinations |->
                    _analyze_hazard_with_special_variable(c, var_info.id, var_info.variable,
                                                          input_combinations[k])])

\* the records one candidate variable contributes, one per input combination
\* under which a gate is flagged
HazardsOfVariable(c, var_info) ==
    RunCombinations(c, var_info, _generate_all_input_combinations(OtherInputs(c, var_info.id)))

CollectVariables(per_variable) ==
    IF \A i \in DOMAIN per_variable : per_variable[i].ok
    THEN [ok |-> TRUE, val |-> ConcatAll([i \in DOMAIN per_variable |-> per_variable[i].val])]
    ELSE [ok |-> FALSE, val |-> <<>>]

AnalyzeVariables(c, variables_with_negation) ==
    CollectVariables([i \in DOMAIN variables_with_negation |->
                         HazardsOfVariable(c, variables_with_negation[i])])

_detect_hazards_by_expression(c, cache) ==
    AnalyzeVariables(c, _find_variables_with_negation(c, cache))

\* faulty variant of DirectRecords: the convergence points are taken path by path,
\* so a point is visited once for each path of the variable it lies on
DirectRecordsPerPath(c, set_order, var_info) ==
    LET paths == var_info.original_paths \o var_info.negation_paths
        points == ConcatAll([p \in DOMAIN paths |->
                      SelectSeq(set_order, LAMBDA g :
                          /\ g \in var_info.convergence_points
                          /\ g \in GateIdSet(c)
                          /\ g \in SeqToSet(paths[p]))])
    IN [k \in DOMAIN points |->
           [variable |-> var_info.variable,
            hazard_type |-> HazardKind(GateOf(c, points[k]).type),
            hazard_gates |-> <<[gate_id |-> points[k],
                                gate_type |-> GateOf(c, points[k]).type,
                                inputs |-> GateOf(c, points[k]).inputs,
                                hazard_type |-> HazardKind(GateOf(c, points[k]).type)]>>]]

\* _check_direct_hazards.  convergence_points is list(set(...)): Python leaves the
\* iteration order of the set open, so the caller supplies it as set_order, a
\* sequence of ids in which the points of one variable are visited
DirectRecords(c, set_order, var_info) ==
    LET points == SelectSeq(set_order, LAMBDA g :
                      g \in var_info.convergence_points /\ g \in GateIdSet(c))
    IN IF ~var_info.has_convergence THEN <<>>
       ELSE [k \in DOMAIN points |->
                LET gate == GateOf(c, points[k])
                IN [variable |-> var_info.variable,
                    hazard_type |-> HazardKind(gate.type),
                    hazard_gates |-> <<[gate_id |-> gate.id, gate_type |-> gate.type,
                                        inputs |-> gate.inputs,
                                        hazard_type |-> HazardKind(gate.type)]>>]]

DirectHazardsOf(c, set_order, variables_with_negation) ==
    ConcatAll([i \in DOMAIN variables_with_negation |->
                  DirectRecords(c, set_order, variables_with_negation[i])])

_check_direct_hazards(c, cache, set_order) ==
    DirectHazardsOf(c, set_order, _find_variables_with_negation(c, cache))

\* faulty variant of WithFallback: the direct classification is never consulted
WithFallbackNever(by_expression, direct_hazards) ==
    IF ~by_expression.ok THEN [ok |-> FALSE, val |-> <<>>] ELSE by_expression

\* if not hazards: hazards = self._check_direct_hazards()
WithFallback(by_expression, direct_hazards) ==
    IF ~by_expression.ok THEN [ok |-> FALSE, val |-> <<>>]
    ELSE IF by_expression.val = <<>> THEN [ok |-> TRUE, val |-> direct_hazards]
    ELSE by_expression

\* the hazards half of detect_hazards: [ok, val], ok = FALSE when the except
\* branch ran
HazardsPart(c, cache, set_order) ==
    WithFallback(_detect_hazards_by_expression(c, cache),
                 _check_direct_hazards(c, cache, set_order))

\* faulty variant of DetectionResult: one try block around both halves, so that a
\* failure of the second half also discards the race list
DetectionResultOneTry(race, hazards) ==
    [kind |-> "detection",
     race_conditions |-> IF race.ok /\ hazards.ok THEN race.val ELSE <<>>,
     hazards |-> IF hazards.ok THEN hazards.val ELSE <<>>,
     race_error |-> ~race.ok,
     hazard_error |-> ~hazards.ok]

\* the returned dict, with the two error logs as race_error and hazard_error
DetectionResult(race, hazards) ==
    [kind |-> "detection",
     race_conditions |-> IF race.ok THEN race.val ELSE <<>>,
     hazards |-> IF hazards.ok THEN hazards.val ELSE <<>>,
     race_error |-> ~race.ok,
     hazard_error |-> ~hazards.ok]

detect_hazards(c, cache, set_order) ==
    DetectionResult(_detect_race_conditions(c, cache), HazardsPart(c, cache, set_order))

\* the node ids detect_hazards asks _find_all_paths_to_gate for
QueriedNodes(c) ==
    LET first_none == IF \E i \in DOMAIN c.gates : c.gates[i].none
                      THEN CHOOSE i \in DOMAIN c.gates :
                               c.gates[i].none /\ \A j \in 1..(i - 1) : ~c.gates[j].none
                      ELSE Len(c.gates) + 1
        by_race == UNION {SeqToSet(c.gates[i].inputs) :
                             i \in {j \in 1..(first_none - 1) : Len(c.gates[j].inputs) > 1}}
        has_candidate == \E i \in DOMAIN c.inputs : DirectNotGates(c, c.inputs[i].id) # <<>>
        by_hazards == IF ~has_candidate THEN {}
                      ELSE {c.outputs[o].source : o \in DOMAIN c.outputs}
                           \cup (IF _topological_sort(c).ok THEN GateIdSet(c) ELSE {})
    IN by_race \cup by_hazards

\* self.paths after detect_hazards
CacheAfterDetect(c, cache) ==
    [n \in DOMAIN cache \cup QueriedNodes(c) |-> _find_all_paths_to_gate(c, cache, n)]

----------------------------------------------------------------------------
(* Evaluation: LogicGate.compute_output and Circuit.compute_circuit *)

\* faulty variant of compute_output: the OR branch uses all() like the AND branch
ComputeOutputOrAsAnd(gate, input_values) ==
    IF \E i \in DOMAIN gate.inputs : gate.inputs[i] \notin DOMAIN input_values
    THEN [ok |-> FALSE, val |-> 0]
    ELSE IF gate.type \in {"AND", "OR"}
    THEN [ok |-> TRUE,
          val |-> IF \A i \in DOMAIN gate.inputs : input_values[gate.inputs[i]] = 1
                  THEN 1 ELSE 0]
    ELSE IF gate.type = "NOT" /\ Len(gate.inputs) = 1
    THEN [ok |-> TRUE, val |-> 1 - input_values[gate.inputs[1]]]
    ELSE [ok |-> FALSE, val |-> 0]

\* [ok |-> TRUE, val |-> 0 or 1], or [ok |-> FALSE] for the ValueError
compute_output(gate, input_values) ==
    IF \E i \in DOMAIN gate.inputs : gate.inputs[i] \notin DOMAIN input_values
    THEN [ok |-> FALSE, val |-> 0]
    ELSE IF gate.type = "AND"
    THEN [ok |-> TRUE,
          val |-> IF \A i \in DOMAIN gate.inputs : input_values[gate.inputs[i]] = 1
                  THEN 1 ELSE 0]
    ELSE IF gate.type = "OR"
    THEN [ok |-> TRUE,
          val |-> IF \E i \in DOMAIN gate.inputs : input_values[gate.inputs[i]] = 1
                  THEN 1 ELSE 0]
    ELSE IF gate.type = "NOT"
    THEN IF Len(gate.inputs) # 1 THEN [ok |-> FALSE, val |-> 0]
         ELSE [ok |-> TRUE, val |-> 1 - input_values[gate.inputs[1]]]
    ELSE [ok |-> FALSE, val |-> 0]

\* the loop over sorted_gates: [ok, val, evaluated], evaluated counting the gates
\* whose output was computed
RECURSIVE EvaluateGates(_, _, _, _)
EvaluateGates(c, order, results, evaluated) ==
    IF order = <<>> THEN [ok |-> TRUE, val |-> results, evaluated |-> evaluated]
    ELSE LET gate == GateOf(c, Head(order))
         IN IF gate.none \/ (\E i \in DOMAIN gate.inputs : gate.inputs[i] \notin DOMAIN results)
            THEN [ok |-> FALSE, val |-> results, evaluated |-> evaluated]
            ELSE LET gate_inputs == [p \in SeqToSet(gate.inputs) |-> results[p]]
                     out == compute_output(gate, gate_inputs)
                 IN IF ~out.ok
                    THEN [ok |-> FALSE, val |-> results, evaluated |-> evaluated]
                    ELSE EvaluateGates(c, Tail(order),
                             [n \in DOMAIN results \cup {gate.id} |->
                                 IF n = gate.id THEN out.val ELSE results[n]],
                             evaluated + 1)

\* the entries results[output_id] = results[output["source"]]
OutputResults(c, results) ==
    [id \in {c.outputs[o].id : o \in DOMAIN c.outputs} |->
        LET o == CHOOSE k \in DOMAIN c.outputs :
                     c.outputs[k].id = id
                     /\ \A j \in (k + 1)..Len(c.outputs) : c.outputs[j].id # id
        IN results[c.outputs[o].source]]

Failure(error, evaluated) ==
    [kind |-> "evaluation", ok |-> FALSE, error |-> error, val |-> <<>>,
     evaluated |-> evaluated]

Merged(results, output_results) ==
    [n \in DOMAIN results \cup DOMAIN output_results |->
        IF n \in DOMAIN output_results THEN output_results[n] ELSE results[n]]

\* the loop over the outputs and the return
ComputeOutputs(c, after_gates) ==
    IF ~after_gates.ok THEN Failure("gate", after_gates.evaluated)
    ELSE IF \E o \in DOMAIN c.outputs : c.outputs[o].source \notin DOMAIN after_gates.val
    THEN Failure("output", after_gates.evaluated)
    ELSE [kind |-> "evaluation", ok |-> TRUE, error |-> "",
          val |-> Merged(after_gates.val, OutputResults(c, after_gates.val)),
          evaluated |-> after_gates.evaluated]

ComputeSorted(c, results, sorted_gates) ==
    IF ~sorted_gates.ok THEN Failure("cycle", 0)
    ELSE ComputeOutputs(c, EvaluateGates(c, sorted_gates.val, results, 0))

\* faulty variant of compute_circuit: the keys of the assignment are not validated
ComputeCircuitUnvalidated(c, given, input_values) ==
    ComputeSorted(c,
        IF given THEN input_values
        ELSE [id \in InputIdSet(c) |-> InputOf(c, id).initial_value],
        _topological_sort(c))

\* compute_circuit(input_values): given = FALSE stands for input_values = None.
\* Returns [kind, ok, error, val, evaluated]; val is the returned dict when ok
compute_circuit(c, given, input_values) ==
    IF given /\ ~(DOMAIN input_values \subseteq InputIdSet(c))
    THEN Failure("unknown input", 0)
    ELSE ComputeSorted(c,
             IF given THEN input_values
             ELSE [id \in InputIdSet(c) |-> InputOf(c, id).initial_value],
             _topological_sort(c))

----------------------------------------------------------------------------
(* Expression parser: CircuitParser.  A string is a sequence of one-character *)
(* strings; Str turns it into a TLA+ string where the code uses it as an id.  *)

\* the letters that occur in the expressions of the model, in code-point order
UpperLetters == <<"A", "B", "D", "N", "O", "R", "T">>
LowerLetters == <<"a", "b", "d", "n", "o", "r", "t">>

\* str.upper()
upper(s) ==
    [i \in DOMAIN s |-> IF s[i] \in SeqToSet(LowerLetters)
                        THEN UpperLetters[IndexOf(LowerLetters, s[i])] ELSE s[i]]

\* str.lower()
lower(s) ==
    [i \in DOMAIN s |-> IF s[i] \in SeqToSet(UpperLetters)
                        THEN LowerLetters[IndexOf(UpperLetters, s[i])] ELSE s[i]]

\* str.isalpha(): non-empty and letters only
isalpha(s) ==
    /\ s # <<>>
    /\ \A i \in DOMAIN s : s[i] \in SeqToSet(UpperLetters) \cup SeqToSet(LowerLetters)

\* str.replace(old, new): the occurrences found scanning from the left, not overlapping
RECURSIVE replace(_, _, _)
replace(s, old, new) ==
    IF Len(s) < Len(old) THEN s
    ELSE IF SubSeq(s, 1, Len(old)) = old
    THEN new \o replace(SubSeq(s, Len(old) + 1, Len(s)), old, new)
    ELSE <<Head(s)>> \o replace(Tail(s), old, new)

RECURSIVE Str(_)
Str(s) == IF s = <<>> THEN "" ELSE Head(s) \o Str(Tail(s))

\* the order of Python strings: by code point, a proper prefix first
RECURSIVE StrLessEq(_, _)
StrLessEq(s, t) ==
    IF s = <<>> THEN TRUE
    ELSE IF t = <<>> THEN FALSE
    ELSE IF Head(s) = Head(t) THEN StrLessEq(Tail(s), Tail(t))
    ELSE IndexOf(UpperLetters, Head(s)) < IndexOf(UpperLetters, Head(t))

\* sorted(list(inputs))
RECURSIVE sorted(_)
sorted(S) ==
    IF S = {} THEN <<>>
    ELSE LET least == CHOOSE x \in S : \A y \in S : StrLessEq(x, y)
         IN <<least>> \o sorted(S \ {least})

\* if current: tokens.append(current.strip()); current holds no white space
Flush(tokens, current) == IF current # <<>> THEN Append(tokens, current) ELSE tokens

\* the loop of _tokenize over the characters of expr
RECURSIVE SplitTokens(_, _, _)
SplitTokens(expr, tokens, current) ==
    IF expr = <<>> THEN Flush(tokens, current)
    ELSE IF Head(expr) \in {"&", "|", "!", "(", ")"}
    THEN SplitTokens(Tail(expr), Append(Flush(tokens, current), <<Head(expr)>>), <<>>)
    ELSE IF Head(expr) = " "
    THEN SplitTokens(Tail(expr), Flush(tokens, current), <<>>)
    ELSE SplitTokens(Tail(expr), tokens, Append(current, Head(expr)))

\* expression.upper().replace('AND', '&').replace('OR', '|').replace('NOT', '!')
Normalized(expr) ==
    replace(replace(replace(upper(expr), <<"A", "N", "D">>, <<"&">>),
                    <<"O", "R">>, <<"|">>),
            <<"N", "O", "T">>, <<"!">>)

_tokenize(expr) == SplitTokens(Normalized(expr), <<>>, <<>>)

_extract_inputs(tokens) ==
    sorted({tokens[i] : i \in {k \in DOMAIN tokens :
                /\ isalpha(tokens[k])
                /\ tokens[k] \notin {<<"A", "N", "D">>, <<"O", "R">>, <<"N", "O", "T">>}}})

_precedence(operator) ==
    IF operator = <<"!">> THEN 3
    ELSE IF operator = <<"&">> THEN 2
    ELSE IF operator = <<"|">> THEN 1
    ELSE 0

\* self.gate_id_counter += 1; return f"g{self.gate_id_counter}"
_generate_gate_id(counter) == "g" \o ToString(counter + 1)

\* the NOT branch of _create_gate; stack.pop() on an empty stack raises IndexError
CreateNot(b, gate_id) ==
    IF b.stack = <<>> THEN [b EXCEPT !.ok = FALSE, !.counter = @ + 1]
    ELSE [b EXCEPT
             !.circuit = add_connection(
                             add_gate(@, LogicGate(gate_id, "NOT", NotDelay,
                                                   <<b.stack[Len(b.stack)]>>)),
                             b.stack[Len(b.stack)], gate_id, WireDelay),
             !.stack = Append(SubSeq(@, 1, Len(@) - 1), gate_id),
             !.counter = @ + 1]

\* the else branch of _create_gate: input2 is popped first, input1 second
CreateBinary(b, gate_id, gate_type) ==
    IF Len(b.stack) < 2 THEN [b EXCEPT !.ok = FALSE, !.counter = @ + 1]
    ELSE [b EXCEPT
             !.circuit = add_connection(
                             add_connection(
                                 add_gate(@, LogicGate(gate_id, gate_type, AndDelay,
                                                       <<b.stack[Len(b.stack) - 1],
                                                         b.stack[Len(b.stack)]>>)),
                                 b.stack[Len(b.stack) - 1], gate_id, WireDelay),
                             b.stack[Len(b.stack)], gate_id, WireDelay),
             !.stack = Append(SubSeq(@, 1, Len(@) - 2), gate_id),
             !.counter = @ + 1]

\* b is the state of _build_gates: [circuit, stack, operators, counter, ok], ok = FALSE
\* once an IndexError was raised
_create_gate(b, operator) ==
    IF operator = <<"!">> THEN CreateNot(b, _generate_gate_id(b.counter))
    ELSE CreateBinary(b, _generate_gate_id(b.counter),
                      IF operator = <<"&">> THEN "AND" ELSE "OR")

\* self._create_gate(circuit, operators.pop(), stack)
ApplyTop(b) ==
    _create_gate([b EXCEPT !.operators = SubSeq(@, 1, Len(@) - 1)],
                 b.operators[Len(b.operators)])

\* the three while loops of _build_gates: pop and apply while the top operator has
\* at least min_precedence, stopping at '(' where the loop's condition says so
RECURSIVE PopOperators(_, _, _)
PopOperators(b, min_precedence, stop_at_paren) ==
    IF ~b.ok \/ b.operators = <<>> THEN b
    ELSE IF stop_at_paren /\ b.operators[Len(b.operators)] = <<"(">> THEN b
    ELSE IF _precedence(b.operators[Len(b.operators)]) < min_precedence THEN b
    ELSE PopOperators(ApplyTop(b), min_precedence, stop_at_paren)

\* operators.append(token)
PushOperator(b, token) ==
    IF b.ok THEN [b EXCEPT !.operators = Append(@, token)] ELSE b

\* if operators and operators[-1] == '(': operators.pop()
DropParen(b) ==
    IF b.ok /\ b.operators # <<>> /\ b.operators[Len(b.operators)] = <<"(">>
    THEN [b EXCEPT !.operators = SubSeq(@, 1, Len(@) - 1)]
    ELSE b

\* the body of the for loop of _build_gates
BuildStep(b, token) ==
    IF ~b.ok THEN b
    ELSE IF token \in {<<"&">>, <<"|">>}
    THEN PushOperator(PopOperators(b, _precedence(token), TRUE), token)
    ELSE IF token \in {<<"!">>, <<"(">>} THEN PushOperator(b, token)
    ELSE IF token = <<")">> THEN DropParen(PopOperators(b, 0, TRUE))
    ELSE [b EXCEPT !.stack = Append(@, Str(lower(token)))]

RECURSIVE BuildLoop(_, _)
BuildLoop(b, tokens) ==
    IF tokens = <<>> THEN b ELSE BuildLoop(BuildStep(b, Head(tokens)), Tail(tokens))

\* return stack[-1]: IndexError on an empty stack
ReturnTop(b) == IF b.ok /\ b.stack = <<>> THEN [b EXCEPT !.ok = FALSE] ELSE b

_build_gates(circuit, tokens, counter) ==
    ReturnTop(PopOperators(BuildLoop([circuit |-> circuit, stack |-> <<>>,
                                      operators |-> <<>>, counter |-> counter,
                                      ok |-> TRUE], tokens),
                           0, FALSE))

\* for var in inputs: circuit.add_input(var.lower(), var, 0)
RECURSIVE AddInputs(_, _)
AddInputs(circuit, names) ==
    IF names = <<>> THEN circuit
    ELSE AddInputs(add_input(circuit, Str(lower(Head(names))), Str(Head(names)), 0),
                   Tail(names))

\* circuit.add_output("out1", "Y", output_id); return circuit
ParseOutcome(b) ==
    IF ~b.ok
    THEN [kind |-> "parse", outcome |-> "IndexError", circuit |-> EmptyCircuit,
          counter |-> b.counter]
    ELSE [kind |-> "parse", outcome |-> "circuit",
          circuit |-> add_output(b.circuit, "out1", "Y", b.stack[Len(b.stack)]),
          counter |-> b.counter]

ParseTokens(tokens, counter) ==
    ParseOutcome(_build_gates(AddInputs(EmptyCircuit, _extract_inputs(tokens)), tokens, counter))

\* parse(expression) with gate_id_counter = counter: how it ends, the circuit it
\* returns and the counter it leaves
parse(expr, counter) ==
    IF expr = <<>>
    THEN [kind |-> "parse", outcome |-> "CircuitParseError", circuit |-> EmptyCircuit,
          counter |-> counter]
    ELSE ParseTokens(_tokenize(expr), counter)

----------------------------------------------------------------------------
(* Construction of a circuit by its add_* methods, as the tests and the parser *)
(* do it: a gate is added together with one connection per input port.         *)

\* the delays of parser.py: NOT 1.0, AND/OR 2.0, every wire 0.1
ParserProfile == [NOT |-> NotDelay, AND |-> AndDelay, OR |-> AndDelay,
                  wire1 |-> WireDelay, wire2 |-> WireDelay]

\* the delays of the gates of test_detector.py with the second wire varied, and a
\* profile of fast gates
DelayProfiles ==
    {ParserProfile}
    \cup {[NOT |-> NotDelay, AND |-> AndDelay, OR |-> OrDelay, wire1 |-> WireDelay, wire2 |-> w] :
             w \in SecondWireDelays}
    \cup {[NOT |-> 4, AND |-> 3, OR |-> 0, wire1 |-> WireDelay, wire2 |-> WireDelay]}

NodeSeq(c) == [i \in DOMAIN c.inputs |-> c.inputs[i].id] \o [i \in DOMAIN c.gates |-> c.gates[i].id]

\* the port lists a new gate may take: one node for NOT, two distinct nodes in
\* node order for AND and OR
PortChoices(c, gate_type) ==
    LET nodes == NodeSeq(c)
    IN IF gate_type = "NOT" THEN {<<nodes[i]>> : i \in DOMAIN nodes}
       ELSE {<<nodes[ij[1]], nodes[ij[2]]>> :
                ij \in {x \in (DOMAIN nodes) \X (DOMAIN nodes) : x[1] < x[2]}}

\* test_detector.py setUp and test_static_hazard_detection
StaticHazardCircuit ==
    [gates |-> << LogicGate("g1", "AND", 20, <<"in1", "in2">>),
                  LogicGate("g2", "OR", 10, <<"in1", "in2">>),
                  LogicGate("g3", "AND", 20, <<"g1", "g2">>) >>,
     inputs |-> << [id |-> "in1", name |-> "A", initial_value |-> 0],
                   [id |-> "in2", name |-> "B", initial_value |-> 0] >>,
     outputs |-> << [id |-> "out1", name |-> "Y", source |-> "g1"],
                    [id |-> "out2", name |-> "Z", source |-> "g3"] >>,
     connections |-> << [from |-> "in1", to |-> "g1", delay |-> 1],
                        [from |-> "in2", to |-> "g1", delay |-> 5],
                        [from |-> "in1", to |-> "g2", delay |-> 2],
                        [from |-> "in2", to |-> "g2", delay |-> 3],
                        [from |-> "g1", to |-> "g3", delay |-> 1],
                        [from |-> "g2", to |-> "g3", delay |-> 1] >>]

\* test_detector.py setUp and test_multiple_paths
MultiplePathsCircuit ==
    [gates |-> << LogicGate("g1", "AND", 20, <<"in1", "in2">>),
                  LogicGate("g4", "OR", 15, <<"g2", "g3">>) >>,
     inputs |-> << [id |-> "in1", name |-> "A", initial_value |-> 0],
                   [id |-> "in2", name |-> "B", initial_value |-> 0] >>,
     outputs |-> << [id |-> "out1", name |-> "Y", source |-> "g1"],
                    [id |-> "out3", name |-> "W", source |-> "g4"] >>,
     connections |-> << [from |-> "in1", to |-> "g1", delay |-> 1],
                        [from |-> "in2", to |-> "g1", delay |-> 5],
                        [from |-> "g2", to |-> "g4", delay |-> 1],
                        [from |-> "g3", to |-> "g4", delay |-> 1] >>]

TestCircuits == {StaticHazardCircuit, MultiplePathsCircuit}

SetCircuit(c) ==
    /\ gates' = c.gates
    /\ inputs' = c.inputs
    /\ outputs' = c.outputs
    /\ connections' = c.connections

InitWith(profiles) ==
    /\ \/ /\ gates = <<>> /\ inputs = <<>> /\ outputs = <<>> /\ connections = <<>>
          /\ sealed = FALSE
       \/ \E c \in TestCircuits :
              /\ gates = c.gates /\ inputs = c.inputs /\ outputs = c.outputs
              /\ connections = c.connections
              /\ sealed = TRUE
    /\ profile \in profiles
    /\ det_paths = <<>>
    /\ det_result = NoResult
    /\ comp_result = NoResult
    /\ expression = <<>>
    /\ gate_id_counter = 0
    /\ parse_result = NoResult
    /\ description = NoResult
    /\ built = NoResult

Init == InitWith({ParserProfile})

\* circuit.add_input(id, name, initial_value)
AddInput(initial_value) ==
    /\ ~sealed
    /\ gates = <<>>
    /\ Len(inputs) < Len(InputIds)
    /\ SetCircuit(add_input(Circuit, InputIds[Len(inputs) + 1], InputNames[Len(inputs) + 1],
                            initial_value))
    /\ UNCHANGED <<sealed, profile, det_paths, det_result, comp_result, parser_vars, description_vars>>

\* gate = LogicGate(...); circuit.add_gate(gate); circuit.add_connection(port, gate, d)
\* for each port (test_detector.py setUp, parser.py _create_gate)
BuildGate(gate_type, ports) ==
    /\ ~sealed
    /\ Len(gates) < MaxGates
    /\ LET gate_id == "g" \o ToString(Len(gates) + 1)
           with_gate == add_gate(Circuit, LogicGate(gate_id, gate_type, profile[gate_type], ports))
           wired1 == add_connection(with_gate, ports[1], gate_id, profile.wire1)
           wired == IF Len(ports) = 1 THEN wired1
                    ELSE add_connection(wired1, ports[2], gate_id, profile.wire2)
       IN SetCircuit(wired)
    /\ UNCHANGED <<sealed, profile, det_paths, det_result, comp_result, parser_vars, description_vars>>

\* circuit.add_output("out1", "Y", source)
AddOutput(source) ==
    /\ ~sealed
    /\ source \in SeqToSet(NodeSeq(Circuit))
    /\ SetCircuit(add_output(Circuit, "out1", "Y", source))
    /\ sealed' = TRUE
    /\ UNCHANGED <<profile, det_paths, det_result, comp_result, parser_vars, description_vars>>

\* one more circuit.add_connection between two gates: a duplicate wire, a wire
\* with no port, or a wire that closes a cycle
AddConnection(from_id, to_id) ==
    /\ ~sealed
    /\ from_id \in GateIdSet(Circuit)
    /\ to_id \in GateIdSet(Circuit)
    /\ SetCircuit(add_connection(Circuit, from_id, to_id, profile.wire1))
    /\ sealed' = TRUE
    /\ UNCHANGED <<profile, det_paths, det_result, comp_result, parser_vars, description_vars>>

\* a gate built from a description with "inputs": null
AddNoneGate ==
    /\ ~sealed
    /\ Len(gates) < MaxGates
    /\ inputs # <<>>
    /\ SetCircuit(add_gate(Circuit,
                           [id |-> "g" \o ToString(Len(gates) + 1), type |-> "AND",
                            delay |-> profile.AND, inputs |-> <<>>, none |-> TRUE]))
    /\ sealed' = TRUE
    /\ UNCHANGED <<profile, det_paths, det_result, comp_result, parser_vars, description_vars>>

\* the two orders in which the model lets a set of ids be iterated
SetOrders(c) == {NodeSeq(c), Reverse(NodeSeq(c))}

\* HazardDetector.detect_hazards()
DetectHazards(set_order) ==
    /\ comp_result = NoResult
    /\ set_order \in SetOrders(Circuit)
    /\ det_result' = detect_hazards(Circuit, det_paths, set_order)
    /\ det_paths' = CacheAfterDetect(Circuit, det_paths)
    /\ sealed' = TRUE
    /\ UNCHANGED <<gates, inputs, outputs, connections, profile, comp_result, parser_vars, description_vars>>

\* the full 0/1 assignments of the primary inputs
Assignments(c) == [InputIdSet(c) -> {0, 1}]

\* Circuit.compute_circuit(input_values)
ComputeCircuit(given, input_values) ==
    /\ det_result = NoResult
    /\ comp_result' = compute_circuit(Circuit, given, input_values)
                       @@ [given |-> given, input_values |-> input_values]
    /\ sealed' = TRUE
    /\ UNCHANGED <<gates, inputs, outputs, connections, profile, det_paths, det_result, parser_vars, description_vars>>

Next ==
    \/ \E v \in {0, 1} : AddInput(v)
    \/ \E t \in GateTypes : \E ports \in PortChoices(Circuit, t) : BuildGate(t, ports)
    \/ \E source \in SeqToSet(NodeSeq(Circuit)) : AddOutput(source)
    \/ \E f \in GateIdSet(Circuit) : \E t \in GateIdSet(Circuit) : AddConnection(f, t)
    \/ AddNoneGate
    \/ \E set_order \in SetOrders(Circuit) : DetectHazards(set_order)
    \/ ComputeCircuit(FALSE, <<>>)
    \/ \E input_values \in Assignments(Circuit) : ComputeCircuit(TRUE, input_values)

Spec == Init /\ [][Next]_vars

----------------------------------------------------------------------------
(* Race analysis over the delay profiles: circuits of gates wired to the inputs *)
(* and to each other, with the delays of the tests and of the parser            *)

InitRace == InitWith(DelayProfiles)

\* a two-input gate with both ports on one node, as parse builds for 'A AND A'
BuildDoubledGate(gate_type, port) ==
    /\ gate_type \in {"AND", "OR"}
    /\ port \in SeqToSet(NodeSeq(Circuit))
    /\ BuildGate(gate_type, <<port, port>>)

NextRace ==
    \/ \E v \in {0, 1} : AddInput(v)
    \/ \E t \in GateTypes : \E ports \in PortChoices(Circuit, t) : BuildGate(t, ports)
    \/ \E t \in GateTypes : \E port \in SeqToSet(NodeSeq(Circuit)) : BuildDoubledGate(t, port)
    \/ \E set_order \in SetOrders(Circuit) : DetectHazards(set_order)

SpecRace == InitRace /\ [][NextRace]_vars

----------------------------------------------------------------------------
(* Parsing an expression, then evaluating or analysing the circuit it returned *)

\* the words an expression is made of: two operands, the keywords, the
\* parentheses, and two operands whose names contain a keyword
Words ==
    {<<"A">>, <<"b">>, <<"A", "N", "D">>, <<"O", "R">>, <<"N", "O", "T">>, <<"(">>, <<")">>,
     <<"N", "O", "R">>, <<"N", "O", "T", "A">>}

Expressions == UNION {[1..n -> Words] : n \in 0..MaxWords}

\* the expression string: the words separated by single spaces
RECURSIVE JoinWords(_)
JoinWords(words) ==
    IF words = <<>> THEN <<>>
    ELSE IF Len(words) = 1 THEN words[1]
    ELSE words[1] \o <<" ">> \o JoinWords(Tail(words))

InitParse ==
    /\ gates = <<>> /\ inputs = <<>> /\ outputs = <<>> /\ connections = <<>>
    /\ sealed = FALSE
    /\ profile = ParserProfile
    /\ det_paths = <<>>
    /\ det_result = NoResult
    /\ comp_result = NoResult
    /\ expression \in Expressions
    /\ gate_id_counter = 0
    /\ parse_result = NoResult
    /\ description = NoResult
    /\ built = NoResult

\* what a call of parse leaves behind
Parsed(r) ==
    /\ parse_result' = [kind |-> "parse", outcome |-> r.outcome]
    /\ gate_id_counter' = r.counter
    /\ IF r.outcome = "circuit" THEN SetCircuit(r.circuit)
       ELSE UNCHANGED <<gates, inputs, outputs, connections>>
    /\ sealed' = TRUE
    /\ UNCHANGED <<profile, det_paths, det_result, comp_result, expression>>

\* circuit = CircuitParser().parse(expression)
Parse ==
    /\ parse_result = NoResult
    /\ Parsed(parse(JoinWords(expression), gate_id_counter))
    /\ UNCHANGED description_vars

\* parse returned a circuit
HasCircuit == parse_result # NoResult /\ parse_result.outcome = "circuit"

NextParse ==
    \/ Parse
    \/ HasCircuit /\ ComputeCircuit(FALSE, <<>>)
    \/ \E input_values \in Assignments(Circuit) : HasCircuit /\ ComputeCircuit(TRUE, input_values)
    \/ \E set_order \in SetOrders(Circuit) : HasCircuit /\ DetectHazards(set_order)

SpecParse == InitParse /\ [][NextParse]_vars

----------------------------------------------------------------------------
(* Evaluation of circuits built from a description, which may be malformed:   *)
(* Circuit.from_dict checks that the fields are present, not what they hold   *)

\* an id that names no node of the circuit
MissingId == "g0"

\* a key of an assignment that is no primary input of the circuit
UnknownInputId == "zz"

\* the gates of a description beyond those the parser builds: a gate of a kind
\* compute_output does not support, a NOT gate with two ports or with none, and
\* a gate with a port on a missing node
DescribedGates(c) ==
    {[type |-> "XOR", inputs |-> ports] : ports \in PortChoices(c, "AND")}
    \cup {[type |-> "NOT", inputs |-> ports] : ports \in PortChoices(c, "AND")}
    \cup {[type |-> "NOT", inputs |-> <<>>]}
    \cup {[type |-> "AND", inputs |-> ports \o <<MissingId>>] : ports \in PortChoices(c, "NOT")}

RECURSIVE WireAll(_, _, _, _)
\* circuit.add_connection(port, gate_id, delay) for each port of the description
WireAll(c, ports, gate_id, delay) ==
    IF ports = <<>> THEN c
    ELSE WireAll(add_connection(c, Head(ports), gate_id, delay), Tail(ports), gate_id, delay)

\* Circuit.from_dict: LogicGate(id, type, delay, inputs, output) as the description
\* gives them, and the connections of the description
DescribeGate(gate_type, ports) ==
    /\ ~sealed
    /\ Len(gates) < MaxGates
    /\ LET gate_id == "g" \o ToString(Len(gates) + 1)
       IN SetCircuit(WireAll(add_gate(Circuit, LogicGate(gate_id, gate_type, profile.AND, ports)),
                             ports, gate_id, profile.wire1))
    /\ UNCHANGED <<sealed, profile, det_paths, det_result, comp_result, parser_vars, description_vars>>

\* Circuit.from_dict: an output whose source names no node
DescribeOutput ==
    /\ ~sealed
    /\ SetCircuit(add_output(Circuit, "out1", "Y", MissingId))
    /\ sealed' = TRUE
    /\ UNCHANGED <<profile, det_paths, det_result, comp_result, parser_vars, description_vars>>

\* the 0/1 assignments of any set of primary inputs, partial ones included, and
\* one with an unknown key
AnyAssignments(c) ==
    UNION {[keys -> {0, 1}] : keys \in SUBSET InputIdSet(c)}
    \cup {[k \in InputIdSet(c) \cup {UnknownInputId} |-> 1]}

\* Circuit._topological_sort() and HazardDetector._topological_sort(), called on
\* the circuit as it stands: comp_result keeps the order or the failure
TopologicalSort ==
    /\ comp_result = NoResult
    /\ det_result = NoResult
    /\ comp_result' = [kind |-> "order"] @@ _topological_sort(Circuit)
    /\ sealed' = TRUE
    /\ UNCHANGED <<gates, inputs, outputs, connections, profile, det_paths, det_result, parser_vars, description_vars>>

NextEval ==
    \/ AddInput(0)
    \/ \E t \in GateTypes : \E ports \in PortChoices(Circuit, t) : BuildGate(t, ports)
    \/ \E g \in DescribedGates(Circuit) : DescribeGate(g.type, g.inputs)
    \/ \E source \in SeqToSet(NodeSeq(Circuit)) : AddOutput(source)
    \/ DescribeOutput
    \/ \E f \in GateIdSet(Circuit) : \E t \in GateIdSet(Circuit) : AddConnection(f, t)
    \/ comp_result = NoResult /\ ComputeCircuit(FALSE, <<>>)
    \/ \E input_values \in AnyAssignments(Circuit) :
          comp_result = NoResult /\ ComputeCircuit(TRUE, input_values)
    \/ TopologicalSort

SpecEval == Init /\ [][NextEval]_vars

----------------------------------------------------------------------------
(* Descriptions of circuits and Circuit.from_dict.  A dict is a function on   *)
(* its keys: a field that is missing is a key that is not in its domain.      *)
(* The inputs and the outputs of a description are a list of dicts or a       *)
(* mapping from id to dict: [form, keys, items], keys empty for a list.       *)

required_fields == <<"name", "gates", "inputs", "outputs", "connections">>
required_gate_fields == <<"id", "type", "delay", "inputs", "output">>
required_input_fields == <<"id", "name", "initial_value">>
required_output_fields == <<"id", "name", "source">>
required_conn_fields == <<"from", "to", "delay">>

\* the strings whose characters the model needs: the field names looked up in a
\* key, and the ids the test circuits and the parser give (the lower-case
\* fragments of the words of an expression)
KnownStrings ==
    {<<"i", "d">>, <<"n", "a", "m", "e">>, <<"s", "o", "u", "r", "c", "e">>,
     <<"i", "n", "i", "t", "i", "a", "l", "_", "v", "a", "l", "u", "e">>,
     <<"o", "u", "t", "1">>, <<"o", "u", "t", "2">>, <<"o", "u", "t", "3">>,
     <<"i", "n", "1">>, <<"i", "n", "2">>}
    \cup UNION {{lower(SubSeq(w, i, j)) : i \in 1..Len(w), j \in 1..Len(w)} : w \in Words}

\* the characters of a Python str
Chars(s) == CHOOSE cs \in KnownStrings : Str(cs) = s

\* sub in s, for two strs
Contains(s, sub) ==
    \E i \in 0..(Len(s) - Len(sub)) : SubSeq(s, i + 1, i + Len(sub)) = sub

\* d with the key field removed, and d with d[field] = value
Without(d, field) == [k \in DOMAIN d \ {field} |-> d[k]]
With(d, field, value) == [k \in DOMAIN d \cup {field} |-> IF k = field THEN value ELSE d[k]]

\* what `for x in collection` yields: the dicts of a list, the keys of a mapping
Elements(collection) ==
    IF collection.form = "list"
    THEN [i \in DOMAIN collection.items |->
             [is_str |-> FALSE, key |-> "", rec |-> collection.items[i]]]
    ELSE [i \in DOMAIN collection.keys |->
             [is_str |-> TRUE, key |-> collection.keys[i], rec |-> <<>>]]

\* field in x: a key of the dict x, or a substring of the str x
FieldIn(field, x) ==
    IF x.is_str THEN Contains(Chars(x.key), Chars(field)) ELSE field \in DOMAIN x.rec

\* for field in required: if field not in x: raise ValueError(... field ...)
\* the field of the error, "" when all are there
FirstMissing(required, x) ==
    IF \A i \in DOMAIN required : FieldIn(required[i], x) THEN ""
    ELSE required[CHOOSE i \in DOMAIN required :
                      /\ ~FieldIn(required[i], x)
                      /\ \A j \in 1..(i - 1) : FieldIn(required[j], x)]

\* how from_dict ends: the circuit, or the ValueError with the part of the
\* description it is about and the field its message names; field is "TypeError"
\* when the message is that of a str indexed by a str
Built(c) == [kind |-> "built", ok |-> TRUE, part |-> "", field |-> "", circuit |-> c]
BuildFailure(part, field) ==
    [kind |-> "built", ok |-> FALSE, part |-> part, field |-> field, circuit |-> EmptyCircuit]

AsDict(x) == [is_str |-> FALSE, key |-> "", rec |-> x]

RECURSIVE AddDescribedConnections(_, _)
\* for conn_data in circuit_data["connections"]
AddDescribedConnections(c, conns) ==
    IF conns = <<>> THEN Built(c)
    ELSE IF FirstMissing(required_conn_fields, AsDict(Head(conns))) # ""
    THEN BuildFailure("connection", FirstMissing(required_conn_fields, AsDict(Head(conns))))
    ELSE AddDescribedConnections(
             add_connection(c, Head(conns).from, Head(conns).to, Head(conns).delay),
             Tail(conns))

RECURSIVE AddDescribedOutputs(_, _, _)
\* for output_data in circuit_data["outputs"]
AddDescribedOutputs(c, elements, conns) ==
    IF elements = <<>> THEN AddDescribedConnections(c, conns)
    ELSE IF FirstMissing(required_output_fields, Head(elements)) # ""
    THEN BuildFailure("output", FirstMissing(required_output_fields, Head(elements)))
    ELSE IF Head(elements).is_str THEN BuildFailure("output", "TypeError")
    ELSE AddDescribedOutputs(
             add_output(c, Head(elements).rec.id, Head(elements).rec.name,
                        Head(elements).rec.source),
             Tail(elements), conns)

RECURSIVE AddDescribedInputs(_, _, _, _)
\* for input_data in circuit_data["inputs"]
AddDescribedInputs(c, elements, output_elements, conns) ==
    IF elements = <<>> THEN AddDescribedOutputs(c, output_elements, conns)
    ELSE IF FirstMissing(required_input_fields, Head(elements)) # ""
    THEN BuildFailure("input", FirstMissing(required_input_fields, Head(elements)))
    ELSE IF Head(elements).is_str THEN BuildFailure("input", "TypeError")
    ELSE AddDescribedInputs(
             add_input(c, Head(elements).rec.id, Head(elements).rec.name,
                       Head(elements).rec.initial_value),
             Tail(elements), output_elements, conns)

RECURSIVE AddDescribedGates(_, _, _)
\* for gate_data in circuit_data["gates"]
AddDescribedGates(c, gate_list, circuit_data) ==
    IF gate_list = <<>>
    THEN AddDescribedInputs(c, Elements(circuit_data.inputs), Elements(circuit_data.outputs),
                            circuit_data.connections)
    ELSE IF FirstMissing(required_gate_fields, AsDict(Head(gate_list))) # ""
    THEN BuildFailure("gate", FirstMissing(required_gate_fields, AsDict(Head(gate_list))))
    ELSE AddDescribedGates(
             add_gate(c, LogicGate(Head(gate_list).id, Head(gate_list).type,
                                   Head(gate_list).delay, Head(gate_list).inputs)),
             Tail(gate_list), circuit_data)

\* Circuit.from_dict(data), circuit_data being data["circuit"]
from_dict(circuit_data) ==
    IF FirstMissing(required_fields, AsDict(circuit_data)) # ""
    THEN BuildFailure("circuit", FirstMissing(required_fields, AsDict(circuit_data)))
    ELSE AddDescribedGates(EmptyCircuit, circuit_data.gates, circuit_data)

\* the inputs or the outputs of a circuit as a description gives them, in the
\* list form or in the mapping form
Collection(form, records) ==
    IF form = "list" THEN [form |-> "list", keys |-> <<>>, items |-> records]
    ELSE [form |-> "mapping",
          keys |-> [i \in DOMAIN records |-> records[i].id],
          items |-> [i \in DOMAIN records |-> Without(records[i], "id")]]

\* the description of a circuit, as test_api.py posts one: every gate with its
\* inputs and its output
DescriptionOf(c, inputs_form, outputs_form) ==
    [name |-> "test",
     gates |-> [i \in DOMAIN c.gates |->
                   [id |-> c.gates[i].id, type |-> c.gates[i].type,
                    delay |-> c.gates[i].delay, inputs |-> c.gates[i].inputs,
                    output |-> c.gates[i].id]],
     inputs |-> Collection(inputs_form, c.inputs),
     outputs |-> Collection(outputs_form, c.outputs),
     connections |-> c.connections]

\* the circuit of the response of CircuitParserAPI.post: the inputs and the
\* outputs as mappings, the gates as the database keeps them
ParsedDescription(c, expr) ==
    [id |-> 1,
     name |-> "Circuit",
     expression |-> expr,
     inputs |-> Collection("mapping", c.inputs),
     outputs |-> Collection("mapping", c.outputs),
     gates |-> [i \in DOMAIN c.gates |->
                   [id |-> c.gates[i].id, type |-> c.gates[i].type,
                    delay |-> c.gates[i].delay]],
     connections |-> c.connections]

RECURSIVE InferInputs(_, _, _)
\* for conn in circuit_data['connections']:
\*     if conn['to'] == gate['id']: gate['inputs'].append(conn['from'])
\* ok is FALSE for a KeyError
InferInputs(gate, conns, found) ==
    IF conns = <<>> THEN [ok |-> TRUE, val |-> With(gate, "inputs", found)]
    ELSE IF "to" \notin DOMAIN Head(conns) \/ "id" \notin DOMAIN gate
    THEN [ok |-> FALSE, val |-> gate]
    ELSE IF Head(conns).to # gate.id THEN InferInputs(gate, Tail(conns), found)
    ELSE IF "from" \notin DOMAIN Head(conns) THEN [ok |-> FALSE, val |-> gate]
    ELSE InferInputs(gate, Tail(conns), Append(found, Head(conns).from))

\* if 'output' not in gate: gate['output'] = gate['id']
DefaultOutput(with_inputs) ==
    IF ~with_inputs.ok \/ "output" \in DOMAIN with_inputs.val THEN with_inputs
    ELSE IF "id" \notin DOMAIN with_inputs.val THEN [ok |-> FALSE, val |-> with_inputs.val]
    ELSE [ok |-> TRUE, val |-> With(with_inputs.val, "output", with_inputs.val.id)]

PreprocessGate(gate, conns) ==
    DefaultOutput(IF "inputs" \in DOMAIN gate THEN [ok |-> TRUE, val |-> gate]
                  ELSE InferInputs(gate, conns, <<>>))

RECURSIVE PreprocessGates(_, _, _)
PreprocessGates(gate_list, conns, done) ==
    IF gate_list = <<>> THEN [ok |-> TRUE, val |-> done]
    ELSE IF ~PreprocessGate(Head(gate_list), conns).ok THEN [ok |-> FALSE, val |-> done]
    ELSE PreprocessGates(Tail(gate_list), conns,
                         Append(done, PreprocessGate(Head(gate_list), conns).val))

WithGates(circuit_data, preprocessed) ==
    [ok |-> preprocessed.ok,
     val |-> IF preprocessed.ok THEN With(circuit_data, "gates", preprocessed.val)
             ELSE circuit_data]

\* HazardDetection.post: every gate of the posted description is given its inputs
\* and its output when it lacks them
Preprocess(circuit_data) ==
    IF "gates" \in DOMAIN circuit_data /\ "connections" \in DOMAIN circuit_data
    THEN WithGates(circuit_data, PreprocessGates(circuit_data.gates, circuit_data.connections, <<>>))
    ELSE [ok |-> TRUE, val |-> circuit_data]

\* the response of a route without results: 400 for a validation error, 500 for
\* any other exception
Rejected(status) == [kind |-> "rejected", status |-> status]

\* circuit.add_input(var.lower(), var, 0) for a variable of the given name
AddInputNamed(input_id, name) ==
    /\ ~sealed
    /\ gates = <<>>
    /\ inputs = <<>>
    /\ SetCircuit(add_input(Circuit, input_id, name, 0))
    /\ UNCHANGED <<sealed, profile, det_paths, det_result, comp_result, parser_vars,
                   description_vars>>

\* a circuit is described in one of the forms
Describe(inputs_form, outputs_form) ==
    /\ sealed
    /\ description = NoResult
    /\ description' = [kind |-> "description", complete |-> TRUE,
                       circuit |-> DescriptionOf(Circuit, inputs_form, outputs_form)]
    /\ UNCHANGED <<gates, inputs, outputs, connections, sealed, profile, det_paths, det_result,
                   comp_result, parser_vars, built>>

Dropped(circuit_data) ==
    /\ description' = [kind |-> "description", complete |-> FALSE, circuit |-> circuit_data]
    /\ UNCHANGED <<gates, inputs, outputs, connections, sealed, profile, det_paths, det_result,
                   comp_result, parser_vars, built>>

Undecided == description # NoResult /\ built = NoResult /\ det_result = NoResult

\* the description lacks one of the fields of the circuit
DropField(field) ==
    /\ Undecided /\ description.complete
    /\ field \in DOMAIN description.circuit
    /\ Dropped(Without(description.circuit, field))

\* a gate or a connection of the description lacks a field
DropListField(list, i, field) ==
    /\ Undecided /\ description.complete
    /\ i \in DOMAIN description.circuit[list]
    /\ field \in DOMAIN description.circuit[list][i]
    /\ Dropped([description.circuit EXCEPT ![list][i] = Without(@, field)])

\* an input or an output of the description lacks a field
DropItemField(collection, i, field) ==
    /\ Undecided /\ description.complete
    /\ i \in DOMAIN description.circuit[collection].items
    /\ field \in DOMAIN description.circuit[collection].items[i]
    /\ Dropped([description.circuit EXCEPT ![collection].items[i] = Without(@, field)])

\* circuit = Circuit.from_dict(description)
FromDict ==
    /\ Undecided
    /\ built' = from_dict(description.circuit)
    /\ UNCHANGED <<gates, inputs, outputs, connections, sealed, profile, det_paths, det_result,
                   comp_result, parser_vars, description>>

\* the detection of HazardDetection.post on the circuit from_dict returned
DetectBuilt(b) ==
    IF ~b.ok THEN det_result' = Rejected(400)
    ELSE \E set_order \in SetOrders(b.circuit) :
             det_result' = detect_hazards(b.circuit, <<>>, set_order)

PostDetectWith(preprocessed, b) ==
    /\ built' = (IF preprocessed.ok THEN b ELSE NoResult)
    /\ IF preprocessed.ok THEN DetectBuilt(b) ELSE det_result' = Rejected(500)
    /\ description' = [description EXCEPT !.circuit = preprocessed.val]

PostDetectOf(preprocessed) == PostDetectWith(preprocessed, from_dict(preprocessed.val))

\* HazardDetection.post with the description as the payload
PostDetect ==
    /\ Undecided
    /\ PostDetectOf(Preprocess(description.circuit))
    /\ UNCHANGED <<gates, inputs, outputs, connections, sealed, profile, det_paths,
                   comp_result, parser_vars>>

FieldNames ==
    SeqToSet(required_fields) \cup SeqToSet(required_gate_fields)
    \cup SeqToSet(required_input_fields) \cup SeqToSet(required_output_fields)
    \cup SeqToSet(required_conn_fields)

\* the gates of the described circuits: a kind with one port, a kind with two
DescribedTypes == {"NOT", "AND"}

NextDescribe ==
    \/ AddInput(0)
    \/ AddInputNamed("id", "ID")
    \/ \E t \in DescribedTypes : \E ports \in PortChoices(Circuit, t) : BuildGate(t, ports)
    \/ \E source \in SeqToSet(NodeSeq(Circuit)) : AddOutput(source)
    \/ \E inputs_form \in {"list", "mapping"} : \E outputs_form \in {"list", "mapping"} :
          Describe(inputs_form, outputs_form)
    \/ \E field \in FieldNames : DropField(field)
    \/ \E list \in {"gates", "connections"} : \E i \in 1..(2 * MaxGates) :
          \E field \in FieldNames : DropListField(list, i, field)
    \/ \E collection \in {"inputs", "outputs"} : \E i \in 1..Len(InputIds) :
          \E field \in FieldNames : DropItemField(collection, i, field)
    \/ FromDict
    \/ PostDetect

SpecDescribe == Init /\ [][NextDescribe]_vars

----------------------------------------------------------------------------

(* The parse route, and a description it returned given back to from_dict *)

PostParseWith(r) ==
    /\ Parsed(r)
    /\ description' = (IF r.outcome = "circuit"
                       THEN [kind |-> "description", complete |-> FALSE,
                             circuit |-> ParsedDescription(r.circuit, expression)]
                       ELSE NoResult)
    /\ UNCHANGED built

\* CircuitParserAPI.post with the expression as the payload: the response holds
\* the description of the parsed circuit, or the route answers 400 or 500
PostParse ==
    /\ parse_result = NoResult
    /\ PostParseWith(parse(JoinWords(expression), gate_id_counter))

NextRoundTrip ==
    \/ PostParse
    \/ FromDict
    \/ PostDetect

SpecRoundTrip == InitParse /\ [][NextRoundTrip]_vars

----------------------------------------------------------------------------

(* Calls repeated on one circuit once it is constructed: compute_circuit and  *)
(* detect_hazards, any number of times in any order                           *)

\* faulty variant of ArgumentAfterCall: results = input_values, without the copy
ArgumentShared(c, given, input_values) ==
    IF given /\ compute_circuit(c, given, input_values).ok
    THEN compute_circuit(c, given, input_values).val
    ELSE input_values

\* results = input_values.copy(): the mapping of the caller as the call leaves it
ArgumentAfterCall(c, given, input_values) == input_values

\* the arguments of a call of compute_circuit
Arguments(given, input_values) == [given |-> given, input_values |-> input_values]

\* the arguments of the last call of compute_circuit, NoResult when there was none
LastArguments ==
    IF comp_result = NoResult THEN NoResult
    ELSE Arguments(comp_result.given, comp_result.input_values)

\* Circuit.compute_circuit(input_values), once more or for the first time: left is
\* the mapping of the caller after the call, again tells that the call before it
\* had the same arguments
CallCompute(given, input_values) ==
    /\ sealed
    /\ comp_result' = compute_circuit(Circuit, given, input_values)
                       @@ [given |-> given, input_values |-> input_values,
                           left |-> ArgumentAfterCall(Circuit, given, input_values),
                           again |-> LastArguments = Arguments(given, input_values)]
    /\ sealed' = TRUE
    /\ UNCHANGED <<gates, inputs, outputs, connections, profile, det_paths, det_result,
                   parser_vars, description_vars>>

\* HazardDetector.detect_hazards(), once more or for the first time: after holds
\* the arguments of the last call of compute_circuit before it
CallDetect(set_order) ==
    /\ sealed
    /\ set_order \in SetOrders(Circuit)
    /\ det_result' = detect_hazards(Circuit, det_paths, set_order) @@ [after |-> LastArguments]
    /\ det_paths' = CacheAfterDetect(Circuit, det_paths)
    /\ sealed' = TRUE
    /\ UNCHANGED <<gates, inputs, outputs, connections, profile, comp_result, parser_vars,
                   description_vars>>

NextCalls ==
    \/ AddInput(0)
    \/ \E t \in DescribedTypes : \E ports \in PortChoices(Circuit, t) : BuildGate(t, ports)
    \/ \E source \in SeqToSet(NodeSeq(Circuit)) : AddOutput(source)
    \/ CallCompute(FALSE, <<>>)
    \/ \E input_values \in Assignments(Circuit) : CallCompute(TRUE, input_values)
    \/ \E set_order \in SetOrders(Circuit) : CallDetect(set_order)

SpecCalls == Init /\ [][NextCalls]_vars

----------------------------------------------------------------------------

----------------------------------------------------------------------------
(* The symbolic gate function on its own: _compute_special_gate_output called *)
(* on one gate with every port given a value                                  *)

\* most ports the gate of such a call has
MaxPorts == 3

\* the names of the ports of that gate
PortNames == <<"p1", "p2", "p3", "p4">>

SymbolicValues == {"0", "1", "X", "~X"}

\* the gate the function is called on: a NOT, AND or OR gate, or one of another kind
InitGate ==
    /\ \E t \in GateTypes \cup {"XOR"} : \E n \in 1..MaxPorts :
          gates = <<LogicGate("g1", t, AndDelay, SubSeq(PortNames, 1, n))>>
    /\ inputs = <<>> /\ outputs = <<>> /\ connections = <<>>
    /\ sealed = TRUE
    /\ profile = ParserProfile
    /\ det_paths = <<>>
    /\ det_result = NoResult
    /\ comp_result = NoResult
    /\ expression = <<>>
    /\ gate_id_counter = 0
    /\ parse_result = NoResult
    /\ description = NoResult
    /\ built = NoResult

\* the dict port -> value in which port i holds values[i]
GateInputs(gate, values) ==
    [i \in DOMAIN gate.inputs |-> [port |-> gate.inputs[i], value |-> values[i]]]

\* self._compute_special_gate_output(gate, gate_inputs)
ComputeSpecialGateOutput(values) ==
    /\ comp_result = NoResult
    /\ Len(values) = Len(gates[1].inputs)
    /\ comp_result' = [kind |-> "gate_output", values |-> values,
                       output |-> _compute_special_gate_output(
                                      gates[1], GateInputs(gates[1], values))]
    /\ UNCHANGED <<gates, inputs, outputs, connections, sealed, profile, det_paths, det_result, parser_vars, description_vars>>

NextGate ==
    \E values \in UNION {[1..n -> SymbolicValues] : n \in 1..MaxPorts} :
        ComputeSpecialGateOutput(values)

SpecGate == InitGate /\ [][NextGate]_vars

----------------------------------------------------------------------------
(* The core operations step by step.  comp_result holds the running call:     *)
(* the kind of operation, the searches and sorts it still has to make (todo),   *)
(* and the locals of the one under way: queue, in_degree and sorted_gates of    *)
(* the while loop of _topological_sort; the call stack of dfs (one frame        *)
(* [current, path, depth, i] per active call, i the connection its for loop     *)
(* stands at, 0 before the loop), visited and paths of _find_all_paths_to_gate; *)
(* memo is the set of keys of self.paths.  The for loops over the gates, the    *)
(* outputs and the input combinations are finite lists and take no step of      *)
(* their own.                                                                   *)

Operations == {"sort", "compute", "paths", "race", "detect"}

SortItem == [what |-> "sort", node |-> ""]
PathsItem(n) == [what |-> "paths", node |-> n]

\* every id that occurs in the circuit
AllNodes(c) ==
    InputIdSet(c) \cup GateIdSet(c)
    \cup {c.connections[i].from : i \in DOMAIN c.connections}
    \cup {c.connections[i].to : i \in DOMAIN c.connections}
    \cup {c.outputs[i].source : i \in DOMAIN c.outputs}

\* _detect_race_conditions: _find_all_paths_to_gate for each input port of each
\* gate with more than one port
RaceItems(c) ==
    ConcatAll([g \in DOMAIN c.gates |->
        IF Len(c.gates[g].inputs) > 1
        THEN [k \in DOMAIN c.gates[g].inputs |-> PathsItem(c.gates[g].inputs[k])]
        ELSE <<>>])

\* _find_variables_with_negation: for each input with a direct NOT gate,
\* _find_variable_paths searches the paths to the source of each output
CandidateItems(c) ==
    ConcatAll([i \in DOMAIN c.inputs |->
        IF DirectNotGates(c, c.inputs[i].id) = <<>> THEN <<>>
        ELSE [o \in DOMAIN c.outputs |-> PathsItem(c.outputs[o].source)]])

\* _analyze_hazard_with_special_variable: the reverse topological sort, then
\* _find_all_paths_to_gate for each gate of the order
AnalysisItems(c, sorted_gates) ==
    <<SortItem>> \o (IF sorted_gates.ok
                     THEN [k \in DOMAIN sorted_gates.val |-> PathsItem(sorted_gates.val[k])]
                     ELSE <<>>)

\* one analysis per candidate variable and combination of the other inputs
AllAnalysisItems(c) ==
    ConcatAll([i \in DOMAIN c.inputs |->
        IF DirectNotGates(c, c.inputs[i].id) = <<>> THEN <<>>
        ELSE ConcatAll([k \in 1..Pow2(Len(c.inputs) - 1) |->
                           AnalysisItems(c, _reverse_topological_sort(c))])])

\* the searches and sorts an operation makes, in order; those of detect_hazards
\* after a sort that raises are dropped when it raises
TodoOf(c, op, n) ==
    CASE op = "sort" -> <<SortItem>>
      [] op = "compute" -> <<SortItem>>
      [] op = "paths" -> <<PathsItem(n)>>
      [] op = "race" -> RaceItems(c)
      [] op = "detect" -> RaceItems(c) \o CandidateItems(c) \o AllAnalysisItems(c)
                          \o CandidateItems(c)

Process(op, todo) ==
    [kind |-> "running", op |-> op, todo |-> todo, phase |-> "idle",
     queue |-> <<>>, in_degree |-> <<>>, sorted_gates |-> <<>>,
     stack |-> <<>>, visited |-> {}, paths |-> <<>>, memo |-> {}, raised |-> FALSE]

Running == comp_result.kind = "running"

\* a call of one of the operations; n is the node of a path search
Start(op, n) ==
    /\ comp_result = NoResult
    /\ det_result = NoResult
    /\ op = "paths" \/ n = ""
    /\ comp_result' = Process(op, TodoOf(Circuit, op, n))
    /\ sealed' = TRUE
    /\ UNCHANGED <<gates, inputs, outputs, connections, profile, det_paths, det_result, parser_vars, description_vars>>

\* the next search or sort of the operation begins; a search for a key of
\* self.paths returns at once
BeginItem(c, p) ==
    IF Head(p.todo).what = "sort"
    THEN [p EXCEPT !.phase = "sort", !.in_degree = InDegree(c),
                   !.queue = ZeroDegreeQueue(c, InDegree(c)), !.sorted_gates = <<>>]
    ELSE IF Head(p.todo).node \in p.memo THEN [p EXCEPT !.todo = Tail(@)]
    ELSE [p EXCEPT !.phase = "paths", !.visited = {}, !.paths = <<>>,
                   !.stack = <<[current |-> Head(p.todo).node,
                                path |-> <<Head(p.todo).node>>, depth |-> 0, i |-> 0]>>]

Begin ==
    /\ Running
    /\ comp_result.phase = "idle"
    /\ comp_result.todo # <<>>
    /\ comp_result' = BeginItem(Circuit, comp_result)
    /\ UNCHANGED <<gates, inputs, outputs, connections, sealed, profile, det_paths, det_result, parser_vars, description_vars>>

\* faulty variant of SortIteration: the neighbours are put on the queue whatever
\* their in-degree
SortIterationEnqueueAll(c, p) ==
    [p EXCEPT !.queue = Tail(p.queue) \o Neighbors(c, Head(p.queue)),
              !.sorted_gates = Append(@, Head(p.queue))]

\* one turn of the while loop of _topological_sort
SortIteration(c, p) ==
    [p EXCEPT !.queue = Relax(Neighbors(c, Head(p.queue)), p.in_degree, Tail(p.queue)).queue,
              !.in_degree = Relax(Neighbors(c, Head(p.queue)), p.in_degree, Tail(p.queue)).in_degree,
              !.sorted_gates = Append(@, Head(p.queue))]

SortStep ==
    /\ Running
    /\ comp_result.phase = "sort"
    /\ comp_result.queue # <<>>
    /\ comp_result' = SortIteration(Circuit, comp_result)
    /\ UNCHANGED <<gates, inputs, outputs, connections, sealed, profile, det_paths, det_result, parser_vars, description_vars>>

\* the loop is left: the ValueError of a cycle ends the operation (detect_hazards
\* catches it and gives up the hazard half), else the operation goes on
SortLeft(c, p) ==
    IF ~SortOutcome(c, p.sorted_gates).ok
    THEN [p EXCEPT !.phase = "idle", !.todo = <<>>, !.raised = TRUE]
    ELSE [p EXCEPT !.phase = "idle", !.todo = Tail(@)]

SortEnd ==
    /\ Running
    /\ comp_result.phase = "sort"
    /\ comp_result.queue = <<>>
    /\ comp_result' = SortLeft(Circuit, comp_result)
    /\ UNCHANGED <<gates, inputs, outputs, connections, sealed, profile, det_paths, det_result, parser_vars, description_vars>>

Pop(stack) == SubSeq(stack, 1, Len(stack) - 1)

\* faulty variant of EnterFrame: a node already on the current branch is entered again
EnterFrameUnvisited(c, p, top) ==
    IF top.depth > max_depth THEN [p EXCEPT !.stack = Pop(@)]
    ELSE IF top.current \in InputIdSet(c)
    THEN [p EXCEPT !.paths = Append(@, top.path), !.stack = Pop(@)]
    ELSE [p EXCEPT !.visited = @ \cup {top.current}, !.stack[Len(p.stack)].i = 1]

\* a call of dfs up to its for loop
EnterFrame(c, p, top) ==
    IF top.depth > max_depth THEN [p EXCEPT !.stack = Pop(@)]
    ELSE IF top.current \in InputIdSet(c)
    THEN [p EXCEPT !.paths = Append(@, top.path), !.stack = Pop(@)]
    ELSE IF top.current \in p.visited THEN [p EXCEPT !.stack = Pop(@)]
    ELSE [p EXCEPT !.visited = @ \cup {top.current}, !.stack[Len(p.stack)].i = 1]

\* one turn of the for loop of dfs, or visited.remove(current) and the return
ScanFrame(c, p, top) ==
    IF top.i > Len(c.connections)
    THEN [p EXCEPT !.visited = @ \ {top.current}, !.stack = Pop(@)]
    ELSE IF c.connections[top.i].to = top.current
    THEN [p EXCEPT !.stack = Append([@ EXCEPT ![Len(p.stack)].i = top.i + 1],
                                    [current |-> c.connections[top.i].from,
                                     path |-> <<c.connections[top.i].from>> \o top.path,
                                     depth |-> top.depth + 1, i |-> 0])]
    ELSE [p EXCEPT !.stack[Len(p.stack)].i = top.i + 1]

PathStep ==
    /\ Running
    /\ comp_result.phase = "paths"
    /\ comp_result.stack # <<>>
    /\ comp_result' = IF comp_result.stack[Len(comp_result.stack)].i = 0
                      THEN EnterFrame(Circuit, comp_result,
                                      comp_result.stack[Len(comp_result.stack)])
                      ELSE ScanFrame(Circuit, comp_result,
                                     comp_result.stack[Len(comp_result.stack)])
    /\ UNCHANGED <<gates, inputs, outputs, connections, sealed, profile, det_paths, det_result, parser_vars, description_vars>>

\* self.paths[gate_id] = paths; return paths
PathEnd ==
    /\ Running
    /\ comp_result.phase = "paths"
    /\ comp_result.stack = <<>>
    /\ comp_result' = [comp_result EXCEPT !.phase = "idle", !.todo = Tail(@),
                                          !.memo = @ \cup {Head(comp_result.todo).node}]
    /\ UNCHANGED <<gates, inputs, outputs, connections, sealed, profile, det_paths, det_result, parser_vars, description_vars>>

\* the operation returns or raises
Finish ==
    /\ Running
    /\ comp_result.phase = "idle"
    /\ comp_result.todo = <<>>
    /\ comp_result' = [kind |-> "returned", op |-> comp_result.op,
                       raised |-> comp_result.raised,
                       sorted_gates |-> comp_result.sorted_gates,
                       paths |-> comp_result.paths, memo |-> comp_result.memo]
    /\ UNCHANGED <<gates, inputs, outputs, connections, sealed, profile, det_paths, det_result, parser_vars, description_vars>>

Step == Begin \/ SortStep \/ SortEnd \/ PathStep \/ PathEnd \/ Finish

NextSteps ==
    \/ AddInput(0)
    \/ \E t \in DescribedTypes : \E ports \in PortChoices(Circuit, t) : BuildGate(t, ports)
    \/ \E source \in SeqToSet(NodeSeq(Circuit)) : AddOutput(source)
    \/ \E f \in GateIdSet(Circuit) : \E t \in GateIdSet(Circuit) : AddConnection(f, t)
    \/ \E op \in Operations \ {"paths"} : Start(op, "")
    \/ \E n \in AllNodes(Circuit) : Start("paths", n)
    \/ Begin
    \/ SortStep
    \/ SortEnd
    \/ PathStep
    \/ PathEnd
    \/ Finish

\* a call that has started keeps running: its next step is taken
SpecSteps == Init /\ [][NextSteps]_vars /\ WF_vars(Step)

----------------------------------------------------------------------------
(* Parsing expressions whose operands may contain a digit, then evaluating or *)
(* analysing the circuit returned                                              *)

\* two operands, an operand with a digit, two keywords and the parentheses
WordsWithDigit ==
    {<<"A">>, <<"b">>, <<"A", "1">>, <<"A", "N", "D">>, <<"N", "O", "T">>, <<"(">>, <<")">>}

InitParseDigit ==
    /\ gates = <<>> /\ inputs = <<>> /\ outputs = <<>> /\ connections = <<>>
    /\ sealed = FALSE
    /\ profile = ParserProfile
    /\ det_paths = <<>>
    /\ det_result = NoResult
    /\ comp_result = NoResult
    /\ expression \in UNION {[1..n -> WordsWithDigit] : n \in 0..MaxWords}
    /\ gate_id_counter = 0
    /\ parse_result = NoResult
    /\ description = NoResult
    /\ built = NoResult

SpecParseDigit == InitParseDigit /\ [][NextParse]_vars

----------------------------------------------------------------------------
(* Several calls of parse on one CircuitParser *)

\* the gate_id_counter up to which one more call of parse is followed
MaxCounter == 4

\* the expressions of the calls on one parser: up to two words
LaterExpressions == UNION {[1..n -> Words] : n \in 0..2}

\* a new CircuitParser and the expression of its first call
InitReparse ==
    /\ gates = <<>> /\ inputs = <<>> /\ outputs = <<>> /\ connections = <<>>
    /\ sealed = FALSE
    /\ profile = ParserProfile
    /\ det_paths = <<>>
    /\ det_result = NoResult
    /\ comp_result = NoResult
    /\ expression \in LaterExpressions
    /\ gate_id_counter = 0
    /\ parse_result = NoResult
    /\ description = NoResult
    /\ built = NoResult

\* parser.parse(expr) on a parser that has parsed before: gate_id_counter is
\* what the earlier calls left
ParseAgain(expr) ==
    LET r == parse(JoinWords(expr), gate_id_counter) IN
    /\ parse_result # NoResult
    /\ gate_id_counter < MaxCounter
    /\ expression' = expr
    /\ parse_result' = [kind |-> "parse", outcome |-> r.outcome]
    /\ gate_id_counter' = r.counter
    /\ IF r.outcome = "circuit" THEN SetCircuit(r.circuit)
       ELSE UNCHANGED <<gates, inputs, outputs, connections>>
    /\ sealed' = TRUE
    /\ UNCHANGED <<profile, det_paths, det_result, comp_result, description_vars>>

NextReparse ==
    \/ Parse
    \/ \E expr \in LaterExpressions : ParseAgain(expr)

SpecReparse == InitReparse /\ [][NextReparse]_vars

(* Properties of detect_hazards *)

DetectionRan == det_result.kind = "detection"

DetectionSucceeded == DetectionRan /\ ~det_result.race_error /\ ~det_result.hazard_error

\* a connection leads from from_id to to_id
Connected(c, from_id, to_id) ==
    \E k \in DOMAIN c.connections :
        c.connections[k].from = from_id /\ c.connections[k].to = to_id

\* the input has a connection that leads directly to a NOT gate
HasDirectNot(c, input_id) ==
    \E i \in DOMAIN c.gates :
        c.gates[i].type = "NOT" /\ Connected(c, input_id, c.gates[i].id)

\* the input is connected directly to the AND gate and to a NOT gate whose output
\* is connected to the same AND gate; every other port of the AND gate is a
\* primary input
FeedsWithComplement(c, inp, gate) ==
    /\ gate.type = "AND"
    /\ ~gate.none
    /\ Connected(c, inp.id, gate.id)
    /\ \E i \in DOMAIN c.gates :
          /\ c.gates[i].type = "NOT"
          /\ Connected(c, inp.id, c.gates[i].id)
          /\ Connected(c, c.gates[i].id, gate.id)
          /\ \A p \in SeqToSet(gate.inputs) :
                p = inp.id \/ p = c.gates[i].id \/ p \in InputIdSet(c)

\* the hazards list is one static-0 record for the variable, naming the gate
OneStaticZeroAt(hazards, variable, gate_id) ==
    /\ Len(hazards) = 1
    /\ hazards[1].variable = variable
    /\ hazards[1].hazard_type = "static-0"
    /\ \E k \in DOMAIN hazards[1].hazard_gates : hazards[1].hazard_gates[k].gate_id = gate_id

\* C1: for a circuit in which a primary input is connected directly to an AND gate
\* and to a NOT gate whose output is connected to the same AND gate, detect_hazards
\* returns exactly one hazard record, for that variable, of kind static-0, naming
\* the AND gate.
C1_OneStaticZeroHazard ==
    DetectionSucceeded =>
        \A i \in DOMAIN inputs : \A g \in DOMAIN gates :
            FeedsWithComplement(Circuit, inputs[i], gates[g]) =>
                OneStaticZeroAt(det_result.hazards, inputs[i].name, gates[g].id)

ReconvergentFanOut(c) ==
    /\ \A g \in DOMAIN c.gates : c.gates[g].type # "NOT" /\ ~c.gates[g].none
    /\ \E g1, g2, g3 \in DOMAIN c.gates :
          /\ c.gates[g1].type = "AND" /\ c.gates[g2].type = "OR" /\ c.gates[g3].type = "AND"
          /\ Len(c.gates[g1].inputs) = 2
          /\ SeqToSet(c.gates[g1].inputs) \subseteq InputIdSet(c)
          /\ SeqToSet(c.gates[g2].inputs) = SeqToSet(c.gates[g1].inputs)
          /\ Cardinality(SeqToSet(c.gates[g1].inputs)) = 2
          /\ SeqToSet(c.gates[g3].inputs) = {c.gates[g1].id, c.gates[g2].id}
          /\ \A p \in SeqToSet(c.gates[g1].inputs) :
                Connected(c, p, c.gates[g1].id) /\ Connected(c, p, c.gates[g2].id)
          /\ Connected(c, c.gates[g1].id, c.gates[g3].id)
          /\ Connected(c, c.gates[g2].id, c.gates[g3].id)
          /\ \E o \in DOMAIN c.outputs : c.outputs[o].source = c.gates[g3].id

\* an output is reached from the inputs over several paths
SeveralPathsToOutput(c) ==
    \E o \in DOMAIN c.outputs :
        Len(_find_all_paths_to_gate(c, <<>>, c.outputs[o].source)) >= 2

\* C3: for a circuit with reconvergent fan-out and no NOT gate, and more generally
\* for a circuit with an output reachable from the inputs over several paths,
\* detect_hazards returns at least one hazard.
C3_ReconvergenceReported ==
    DetectionSucceeded =>
        /\ ReconvergentFanOut(Circuit) => Len(det_result.hazards) >= 1
        /\ SeveralPathsToOutput(Circuit) => Len(det_result.hazards) >= 1

\* the delay of the first connection from from_id to to_id
WireInto(c, from_id, to_id) ==
    c.connections[CHOOSE k \in DOMAIN c.connections :
                      /\ c.connections[k].from = from_id /\ c.connections[k].to = to_id
                      /\ \A j \in 1..(k - 1) :
                            ~(c.connections[j].from = from_id /\ c.connections[j].to = to_id)
                 ].delay

\* a 2-input AND gate fed directly by two primary inputs over wires of the two delays
DirectAndWithWires(c, gate, delay1, delay2) ==
    /\ gate.type = "AND"
    /\ Len(gate.inputs) = 2
    /\ gate.inputs[1] # gate.inputs[2]
    /\ SeqToSet(gate.inputs) \subseteq InputIdSet(c)
    /\ Connected(c, gate.inputs[1], gate.id)
    /\ Connected(c, gate.inputs[2], gate.id)
    /\ WireInto(c, gate.inputs[1], gate.id) = delay1
    /\ WireInto(c, gate.inputs[2], gate.id) = delay2

\* the number of race records of the gate
RacesAt(race_conditions, gate_id) ==
    Cardinality({k \in DOMAIN race_conditions : race_conditions[k].gate_id = gate_id})

\* C4: for a 2-input AND gate fed directly by two primary inputs, wire delays 0.1
\* and 0.5 give one race at the gate and wire delays 0.1 and 0.7 give none.
C4_RaceByWireDelays ==
    DetectionSucceeded =>
        \A g \in DOMAIN gates :
            /\ DirectAndWithWires(Circuit, gates[g], 1, 5) =>
                  RacesAt(det_result.race_conditions, gates[g].id) = 1
            /\ DirectAndWithWires(Circuit, gates[g], 1, 7) =>
                  RacesAt(det_result.race_conditions, gates[g].id) = 0

\* the sum of the delays of the gates on the path and of the connections between
\* consecutive path nodes
DelayAlong(c, path) ==
    SumSeq([i \in DOMAIN path |->
               IF path[i] \in GateIdSet(c) THEN GateOf(c, path[i]).delay ELSE 0])
    + SumSeq([i \in 1..(Len(path) - 1) |->
                 IF Connected(c, path[i], path[i + 1])
                 THEN WireInto(c, path[i], path[i + 1]) ELSE 0])

\* d_p: the maximum over the paths returned for the port, 0 when there is none
PortDelay(c, port) ==
    LET paths == _find_all_paths_to_gate(c, <<>>, port)
        sums == {DelayAlong(c, paths[i]) : i \in DOMAIN paths}
    IN IF sums = {} THEN 0 ELSE CHOOSE d \in sums : \A e \in sums : e <= d

\* the record is the one of the gate and of the pair of ports p, q
RecordOfPair(c, r, gate, p, q) ==
    /\ r.gate_id = gate.id
    /\ r.gate_type = gate.type
    /\ \/ /\ r.input1 = p /\ r.input2 = q
          /\ r.delay1 = PortDelay(c, p) /\ r.delay2 = PortDelay(c, q)
       \/ /\ r.input1 = q /\ r.input2 = p
          /\ r.delay1 = PortDelay(c, q) /\ r.delay2 = PortDelay(c, p)

\* the ports p, q of the gate are distinct and their delays differ by less than 0.5
RacingPair(c, gate, p, q) ==
    /\ Len(gate.inputs) >= 2
    /\ p \in SeqToSet(gate.inputs)
    /\ q \in SeqToSet(gate.inputs)
    /\ p # q
    /\ Abs(PortDelay(c, p) - PortDelay(c, q)) < RaceThreshold

\* C5: the race list holds exactly one record (gate id, gate kind, the two input
\* ids, their two delays) for each gate with at least two input ports and each
\* unordered pair of distinct input ports of it whose delays d_p differ by less
\* than 0.5, and no other record.
C5_RaceRecords ==
    DetectionSucceeded =>
        LET races == det_result.race_conditions
            nodes == UNION {SeqToSet(gates[g].inputs) : g \in DOMAIN gates}
        IN /\ \A g \in DOMAIN gates : \A p, q \in nodes :
                 RacingPair(Circuit, gates[g], p, q) =>
                     Cardinality({k \in DOMAIN races :
                                     RecordOfPair(Circuit, races[k], gates[g], p, q)}) = 1
           /\ \A k \in DOMAIN races :
                 \E g \in DOMAIN gates : \E p, q \in nodes :
                     /\ RacingPair(Circuit, gates[g], p, q)
                     /\ RecordOfPair(Circuit, races[k], gates[g], p, q)

\* a gate has one port on a primary input and one on a gate, and the two race,
\* the delay of the gate port counting a gate and a connection
C5_Witness ==
    /\ DetectionSucceeded
    /\ \E k \in DOMAIN det_result.race_conditions :
          LET r == det_result.race_conditions[k]
          IN /\ {r.input1, r.input2} \cap GateIdSet(Circuit) # {}
             /\ {r.input1, r.input2} \cap InputIdSet(Circuit) # {}
             /\ r.delay1 # r.delay2

\* C6: detect_hazards returns a mapping with a race_conditions list and a hazards
\* list for every circuit, cyclic and malformed ones included; a failure inside
\* race detection leaves an empty race list and the hazards list that hazard
\* detection produces, and a failure inside hazard detection leaves an empty
\* hazards list and the race list that race detection produces.
C6_FailuresAreSeparate ==
    DetectionRan =>
        /\ DOMAIN det_result =
               {"kind", "race_conditions", "hazards", "race_error", "hazard_error"}
        /\ det_result.race_conditions =
               IF det_result.race_error THEN <<>>
               ELSE _detect_race_conditions(Circuit, <<>>).val
        /\ IF det_result.hazard_error THEN det_result.hazards = <<>>
           ELSE \E set_order \in SetOrders(Circuit) :
                    det_result.hazards = HazardsPart(Circuit, <<>>, set_order).val

\* hazard detection failed on a circuit for which race detection found a race
C6_Witness ==
    /\ DetectionRan
    /\ det_result.hazard_error
    /\ ~det_result.race_error
    /\ det_result.race_conditions # <<>>

----------------------------------------------------------------------------
(* Properties of compute_circuit *)

EvaluationRan == comp_result.kind = "evaluation"

\* the gates reached from the gates of S over gate-to-gate connections, in at
\* most n further steps
RECURSIVE ReachedFrom(_, _, _)
ReachedFrom(c, S, n) ==
    LET step == {c.connections[k].to : k \in {j \in DOMAIN c.connections :
                     c.connections[j].from \in S /\ c.connections[j].to \in GateIdSet(c)}}
    IN IF n = 0 THEN step ELSE step \cup ReachedFrom(c, step, n - 1)

\* no gate reaches itself over gate-to-gate connections
Acyclic(c) ==
    \A g \in GateIdSet(c) : g \notin ReachedFrom(c, {g}, Len(c.gates))

\* every port of every gate is a primary input or a gate, with a connection from
\* it to the gate
PortsResolve(c) ==
    \A g \in DOMAIN c.gates :
        /\ ~c.gates[g].none
        /\ \A p \in SeqToSet(c.gates[g].inputs) :
              /\ p \in InputIdSet(c) \cup GateIdSet(c)
              /\ Connected(c, p, c.gates[g].id)

\* the function of the gate applied to the values val gives its ports
GateFunction(gate, val) ==
    IF gate.type = "AND"
    THEN IF \A i \in DOMAIN gate.inputs : val[gate.inputs[i]] = 1 THEN 1 ELSE 0
    ELSE IF gate.type = "OR"
    THEN IF \E i \in DOMAIN gate.inputs : val[gate.inputs[i]] = 1 THEN 1 ELSE 0
    ELSE 1 - val[gate.inputs[1]]

----------------------------------------------------------------------------
(* Properties of parse.  An expression is read as a sequence of words: operands, *)
(* the keywords AND, OR and NOT, and parentheses.                                *)

ParseRan == parse_result.kind = "parse"

KwAnd == <<"A", "N", "D">>
KwOr == <<"O", "R">>
KwNot == <<"N", "O", "T">>
LParen == <<"(">>
RParen == <<")">>

IsOperandWord(w) == w \notin {KwAnd, KwOr, KwNot, LParen, RParen}

\* the id of the primary input of an operand: the lowercased operand
OperandId(w) == Str(lower(w))

OperandIds(ws) == {OperandId(ws[i]) : i \in {j \in DOMAIN ws : IsOperandWord(ws[j])}}

NoValue == [ok |-> FALSE, val |-> 0, rest |-> <<>>]

\* the value of the operand under env; the reading of the grammar alone uses the
\* empty env
ValueOf(w, env) == IF OperandId(w) \in DOMAIN env THEN env[OperandId(w)] ELSE 0

RECURSIVE ReadOr(_, _), ReadOrTail(_, _, _), ReadAnd(_, _), ReadAndTail(_, _, _), ReadNot(_, _)

\* not := NOT not | ( or ) | operand
ReadNot(ws, env) ==
    IF ws = <<>> THEN NoValue
    ELSE IF Head(ws) = KwNot
    THEN LET r == ReadNot(Tail(ws), env)
         IN IF r.ok THEN [r EXCEPT !.val = 1 - @] ELSE NoValue
    ELSE IF Head(ws) = LParen
    THEN LET r == ReadOr(Tail(ws), env)
         IN IF r.ok /\ r.rest # <<>> /\ Head(r.rest) = RParen
            THEN [r EXCEPT !.rest = Tail(@)] ELSE NoValue
    ELSE IF IsOperandWord(Head(ws))
    THEN [ok |-> TRUE, val |-> ValueOf(Head(ws), env), rest |-> Tail(ws)]
    ELSE NoValue

\* and := not (AND not)*, grouped from the left
ReadAndTail(left, ws, env) ==
    IF ws # <<>> /\ Head(ws) = KwAnd
    THEN LET r == ReadNot(Tail(ws), env)
         IN IF r.ok THEN ReadAndTail(left * r.val, r.rest, env) ELSE NoValue
    ELSE [ok |-> TRUE, val |-> left, rest |-> ws]

ReadAnd(ws, env) ==
    LET r == ReadNot(ws, env)
    IN IF r.ok THEN ReadAndTail(r.val, r.rest, env) ELSE NoValue

\* or := and (OR and)*, grouped from the left
ReadOrTail(left, ws, env) ==
    IF ws # <<>> /\ Head(ws) = KwOr
    THEN LET r == ReadAnd(Tail(ws), env)
         IN IF r.ok THEN ReadOrTail(IF left = 1 \/ r.val = 1 THEN 1 ELSE 0, r.rest, env)
            ELSE NoValue
    ELSE [ok |-> TRUE, val |-> left, rest |-> ws]

ReadOr(ws, env) ==
    LET r == ReadAnd(ws, env)
    IN IF r.ok THEN ReadOrTail(r.val, r.rest, env) ELSE NoValue

\* the expression is syntactically valid: the grammar reads all of it
IsValidExpression(ws) ==
    LET r == ReadOr(ws, <<>>) IN r.ok /\ r.rest = <<>>

\* its value with precedence NOT > AND > OR
ExprValue(ws, env) == ReadOr(ws, env).val

\* C7: for every syntactically valid expression, parse returns a circuit, and
\* evaluating it under any 0/1 assignment of the operands gives the output the
\* value of the expression read with precedence NOT > AND > OR and left-to-right
\* grouping of equal binary operators.
C7_CircuitComputesExpression ==
    (ParseRan /\ IsValidExpression(expression)) =>
        /\ parse_result.outcome = "circuit"
        /\ (EvaluationRan /\ comp_result.given) =>
              /\ comp_result.ok
              /\ DOMAIN comp_result.input_values = OperandIds(expression)
              /\ comp_result.val["out1"] = ExprValue(expression, comp_result.input_values)

CountWords(ws, S) == Cardinality({i \in DOMAIN ws : ws[i] \in S})

\* C8: for a valid expression with n distinct operands, u NOT operators and b
\* binary operators, parse returns a circuit with n primary inputs (id the
\* lowercased operand, initial value 0), u+b gates, u+2b connections each of delay
\* 0.1, every NOT gate with one input and delay 1.0, every AND/OR gate with two
\* inputs and delay 2.0, and a single output sourced from the last gate created,
\* or from the input when there is no operator.
C8_CircuitShape ==
    (ParseRan /\ IsValidExpression(expression)) =>
        LET u == CountWords(expression, {KwNot})
            b == CountWords(expression, {KwAnd, KwOr})
        IN /\ parse_result.outcome = "circuit"
           /\ Len(inputs) = Cardinality(OperandIds(expression))
           /\ {inputs[i].id : i \in DOMAIN inputs} = OperandIds(expression)
           /\ \A i \in DOMAIN inputs : inputs[i].initial_value = 0
           /\ Len(gates) = u + b
           /\ Len(connections) = u + 2 * b
           /\ \A k \in DOMAIN connections : connections[k].delay = WireDelay
           /\ \A g \in DOMAIN gates :
                 IF gates[g].type = "NOT"
                 THEN Len(gates[g].inputs) = 1 /\ gates[g].delay = NotDelay
                 ELSE Len(gates[g].inputs) = 2 /\ gates[g].delay = AndDelay
           /\ Len(outputs) = 1
           /\ outputs[1].source = IF u + b = 0 THEN inputs[1].id ELSE gates[Len(gates)].id

\* the nesting depth after each word never drops below 0 and ends at 0
RECURSIVE Balanced(_, _)
Balanced(ws, depth) ==
    IF ws = <<>> THEN depth = 0
    ELSE IF Head(ws) = LParen THEN Balanced(Tail(ws), depth + 1)
    ELSE IF Head(ws) = RParen THEN depth > 0 /\ Balanced(Tail(ws), depth - 1)
    ELSE Balanced(Tail(ws), depth)

\* empty, two consecutive binary operators, a dangling operator at the end, or
\* unbalanced parentheses
Malformed(ws) ==
    \/ ws = <<>>
    \/ \E i \in 1..(Len(ws) - 1) : ws[i] \in {KwAnd, KwOr} /\ ws[i + 1] \in {KwAnd, KwOr}
    \/ ws # <<>> /\ ws[Len(ws)] \in {KwAnd, KwOr, KwNot}
    \/ ~Balanced(ws, 0)

\* C9: parse fails with CircuitParseError, with no other kind of failure and no
\* returned circuit, whenever the expression is empty, contains two consecutive
\* binary operators, ends with a dangling operator, or has unbalanced parentheses.
C9_MalformedIsParseError ==
    (ParseRan /\ Malformed(expression)) => parse_result.outcome = "CircuitParseError"

----------------------------------------------------------------------------
(* Properties of compute_circuit on malformed circuits and assignments *)

\* the kinds compute_output supports, a NOT gate with exactly one port
SupportedGate(gate) ==
    /\ gate.type \in {"AND", "OR", "NOT"}
    /\ gate.type = "NOT" => Len(gate.inputs) = 1

\* the nodes that have a computed value: the nodes of have, and, n + 1 times over,
\* every supported gate whose ports all have one
RECURSIVE ValuedNodes(_, _, _)
ValuedNodes(c, have, n) ==
    LET more == have \cup {c.gates[g].id : g \in {k \in DOMAIN c.gates :
                              /\ SupportedGate(c.gates[k])
                              /\ SeqToSet(c.gates[k].inputs) \subseteq have}}
    IN IF n = 0 THEN more ELSE ValuedNodes(c, more, n - 1)

\* the keys of the assignment of the last call: the primary inputs when none was given
AssignedKeys ==
    IF comp_result.given THEN DOMAIN comp_result.input_values ELSE InputIdSet(Circuit)

\* the nodes with a computed value in the last call
ValuedInCall == ValuedNodes(Circuit, AssignedKeys, Len(gates))

\* C11: compute_circuit fails, before evaluating any gate, when the given
\* assignment has a key that is no primary-input id; it also fails when a gate has
\* an unknown kind, a NOT gate has other than one input, a gate input port has no
\* computed value, or an output's source has no computed value.
C11_EvaluationErrors ==
    EvaluationRan =>
        /\ (comp_result.given /\ ~(DOMAIN comp_result.input_values \subseteq InputIdSet(Circuit)))
              => (~comp_result.ok /\ comp_result.evaluated = 0)
        /\ (\E g \in DOMAIN gates : gates[g].type \notin {"AND", "OR", "NOT"})
              => ~comp_result.ok
        /\ (\E g \in DOMAIN gates : gates[g].type = "NOT" /\ Len(gates[g].inputs) # 1)
              => ~comp_result.ok
        /\ (\E g \in DOMAIN gates : \E p \in SeqToSet(gates[g].inputs) : p \notin ValuedInCall)
              => ~comp_result.ok
        /\ (\E o \in DOMAIN outputs : outputs[o].source \notin ValuedInCall)
              => ~comp_result.ok

\* a circuit with a gate that has a value under the assignment of the input keys
\* is given an assignment with one more key, and the call fails
C11_Witness ==
    /\ EvaluationRan
    /\ comp_result.given
    /\ UnknownInputId \in DOMAIN comp_result.input_values
    /\ gates # <<>>
    /\ GateIdSet(Circuit) \subseteq ValuedNodes(Circuit, InputIdSet(Circuit), Len(gates))
    /\ ~comp_result.ok


(* Properties of the topological sort *)

SortRan == comp_result.kind = "order"

\* the gate-to-gate connection from gate x to gate y
GateConnection(c, x, y) ==
    /\ x \in GateIdSet(c)
    /\ y \in GateIdSet(c)
    /\ \E k \in DOMAIN c.connections : c.connections[k].from = x /\ c.connections[k].to = y

\* C12: on a circuit whose gate-to-gate connection graph is acyclic, the
\* topological sort returns a sequence that contains every gate id exactly once
\* and in which x comes before y for every connection from gate x to gate y.
C12_SortOrdersAcyclic ==
    (SortRan /\ Acyclic(Circuit)) =>
        /\ comp_result.ok
        /\ Len(comp_result.val) = Len(gates)
        /\ \A g \in GateIdSet(Circuit) :
              Cardinality({i \in DOMAIN comp_result.val : comp_result.val[i] = g}) = 1
        /\ \A x \in GateIdSet(Circuit) : \A y \in GateIdSet(Circuit) :
              GateConnection(Circuit, x, y) =>
                  IndexOf(comp_result.val, x) < IndexOf(comp_result.val, y)

\* the sort has put a later gate before the earlier gate it feeds
C12_Witness ==
    /\ SortRan
    /\ Acyclic(Circuit)
    /\ comp_result.ok
    /\ \E i \in DOMAIN gates : \E j \in DOMAIN gates :
          /\ i < j
          /\ GateConnection(Circuit, gates[j].id, gates[i].id)
          /\ IndexOf(comp_result.val, gates[j].id) < IndexOf(comp_result.val, gates[i].id)

\* a gate-to-gate cycle: some gate reaches itself, a self-loop included
HasCycle(c) == ~Acyclic(c)

C13_WitnessSelfLoop ==
    /\ SortRan
    /\ ~comp_result.ok
    /\ \E x \in GateIdSet(Circuit) : GateConnection(Circuit, x, x)


(* Properties of Circuit.from_dict *)

FromDictRan == built.kind = "built"

\* the route has answered the posted description
Answered == description # NoResult /\ det_result # NoResult

\* the fields a record lacks, each with the part of the description it belongs to
LackedBy(part, required, record) ==
    {[part |-> part, field |-> required[i]] :
        i \in {k \in DOMAIN required : required[k] \notin DOMAIN record}}

\* the fields the items of a collection lack; in the mapping form the id of an
\* item is its key
LackedByItems(part, required, collection) ==
    UNION {LackedBy(part, required, collection.items[i]) : i \in DOMAIN collection.items}
    \ (IF collection.form = "mapping" THEN {[part |-> part, field |-> "id"]} ELSE {})

\* the required fields the description lacks
MissingFields(d) ==
    LackedBy("circuit", required_fields, d)
    \cup (IF "gates" \in DOMAIN d
          THEN UNION {LackedBy("gate", required_gate_fields, d.gates[i]) : i \in DOMAIN d.gates}
          ELSE {})
    \cup (IF "connections" \in DOMAIN d
          THEN UNION {LackedBy("connection", required_conn_fields, d.connections[i]) :
                         i \in DOMAIN d.connections}
          ELSE {})
    \cup (IF "inputs" \in DOMAIN d
          THEN LackedByItems("input", required_input_fields, d.inputs) ELSE {})
    \cup (IF "outputs" \in DOMAIN d
          THEN LackedByItems("output", required_output_fields, d.outputs) ELSE {})

\* the list of records with an id field that a collection stands for
AsList(collection) ==
    IF collection.form = "list" THEN collection
    ELSE [form |-> "list", keys |-> <<>>,
          items |-> [i \in DOMAIN collection.items |->
                        With(collection.items[i], "id", collection.keys[i])]]

\* the same description with its inputs and its outputs in the list form
ListForm(d) == [d EXCEPT !.inputs = AsList(@), !.outputs = AsList(@)]

\* a circuit such as the one test_api.py posts: one AND gate over two primary
\* inputs, the output on the gate
PostedByTest(c) ==
    /\ Len(c.gates) = 1 /\ c.gates[1].type = "AND"
    /\ Len(c.inputs) = 2
    /\ c.gates[1].inputs = <<c.inputs[1].id, c.inputs[2].id>>
    /\ Len(c.outputs) = 1 /\ c.outputs[1].source = c.gates[1].id

\* C14: from_dict accepts the primary inputs and the primary outputs of a
\* description as a list of records with an id field or as a mapping from id to
\* record, and both forms of a description build the same Circuit; a description
\* with mapping-form inputs and outputs such as the one the API test posts is
\* built, and detection on it succeeds.
C14_BothFormsAccepted ==
    /\ (FromDictRan /\ MissingFields(description.circuit) = {}) =>
          /\ built.ok
          /\ built.circuit = from_dict(ListForm(description.circuit)).circuit
    /\ (Answered /\ MissingFields(description.circuit) = {}) =>
          /\ DetectionRan
          /\ PostedByTest(Circuit) => DetectionSucceeded

\* C15: from_dict fails with a validation error whose message names the missing
\* field whenever the description lacks name, gates, inputs, outputs or
\* connections, or a gate lacks id, type, delay, inputs or output, or an input
\* lacks id, name or initial_value, or an output lacks id, name or source, or a
\* connection lacks from, to or delay; no Circuit is returned then.
C15_MissingFieldIsNamed ==
    (FromDictRan /\ MissingFields(description.circuit) # {}) =>
        /\ ~built.ok
        /\ built.circuit = EmptyCircuit
        /\ [part |-> built.part, field |-> built.field] \in MissingFields(description.circuit)


\* C16: for every syntactically valid expression, the description of the parsed
\* circuit that the parse operation returns to its callers, given to from_dict,
\* builds a circuit with the same gates, connections, inputs and outputs as the
\* parsed one.
C16_DescriptionRoundTrip ==
    (FromDictRan /\ HasCircuit /\ IsValidExpression(expression)) =>
        /\ built.ok
        /\ built.circuit = Circuit


(* Properties of repeated calls *)

\* what a call of compute_circuit returned or raised
Returned(r) == [ok |-> r.ok, error |-> r.error, val |-> r.val]

FedByVariableAndItsNot(c, inp, gate) ==
    /\ gate.type \in {"AND", "OR"}
    /\ ~gate.none
    /\ inp.id \in SeqToSet(gate.inputs)
    /\ \E i \in DOMAIN c.gates :
          /\ c.gates[i].type = "NOT"
          /\ c.gates[i].inputs = <<inp.id>>
          /\ c.gates[i].id \in SeqToSet(gate.inputs)
          /\ \A p \in SeqToSet(gate.inputs) :
                p = inp.id \/ p = c.gates[i].id \/ p \in InputIdSet(c)

\* the assignment gives every other primary input among the ports of the gate
\* the value that leaves the gate to its two complementary inputs
RemainingNeutral(inp, gate, other_inputs) ==
    \A p \in SeqToSet(gate.inputs) \cap DOMAIN other_inputs :
        other_inputs[p] = (IF gate.type = "AND" THEN 1 ELSE 0)

\* the pass has flagged the gate as a hazard site of the kind of its type
FlaggedBy(outcome, gate) ==
    /\ outcome.ok /\ outcome.found
    /\ \E k \in DOMAIN outcome.val.hazard_gates :
          /\ outcome.val.hazard_gates[k].gate_id = gate.id
          /\ outcome.val.hazard_gates[k].hazard_type =
                (IF gate.type = "AND" THEN "static-0" ELSE "static-1")

\* the assignments of the other inputs the exhaustive pass runs a variable under
CombinationsFor(c, inp) ==
    SeqToSet(_generate_all_input_combinations(OtherInputs(c, inp.id)))

\* C18: in the exhaustive symbolic pass for a candidate variable, an AND gate
\* (an OR gate) fed by the variable itself and by a NOT gate driven by that
\* variable is flagged as a static-0 (static-1) hazard site, under every
\* assignment of the other inputs that sets the remaining inputs of the gate to 1
\* (to 0).
C18_SymbolicPassFlags ==
    DetectionSucceeded =>
        \A i \in DOMAIN inputs : \A g \in DOMAIN gates :
            FedByVariableAndItsNot(Circuit, inputs[i], gates[g]) =>
                \A other_inputs \in CombinationsFor(Circuit, inputs[i]) :
                    RemainingNeutral(inputs[i], gates[g], other_inputs) =>
                        FlaggedBy(_analyze_hazard_with_special_variable(
                                      Circuit, inputs[i].id, inputs[i].name, other_inputs),
                                  gates[g])


\* the (variable, gate, hazard kind) triples of a list of hazard records
Triples(hazards) ==
    UNION {{<<hazards[k].variable, hazards[k].hazard_gates[j].gate_id,
              hazards[k].hazard_gates[j].hazard_type>> :
               j \in DOMAIN hazards[k].hazard_gates} : k \in DOMAIN hazards}

\* C19: on an acyclic circuit the two strategies agree: the (variable, gate,
\* hazard kind) triples found by the exhaustive symbolic simulation
\* (_detect_hazards_by_expression) are those found by the direct classification
\* of the convergence points (_check_direct_hazards).
C19_StrategiesAgree ==
    (DetectionSucceeded /\ Acyclic(Circuit)) =>
        /\ _detect_hazards_by_expression(Circuit, det_paths).ok
        /\ Triples(_detect_hazards_by_expression(Circuit, det_paths).val)
              = Triples(_check_direct_hazards(Circuit, det_paths, NodeSeq(Circuit)))


\* the records of a hazards list that name the variable
RecordsOf(hazards, variable) == SelectSeq(hazards, LAMBDA h : h.variable = variable)

\* the kind the direct classification gives a convergence point
KindOfPoint(gate_type) ==
    CASE gate_type = "AND" -> "static-0"
      [] gate_type = "OR" -> "static-1"
      [] OTHER -> "dynamic"

\* one record per convergence point of the variable, of the kind of the gate
OnePerConvergencePoint(c, records, points) ==
    /\ Len(records) = Cardinality(points)
    /\ \A p \in points :
          /\ p \in GateIdSet(c)
          /\ \E k \in DOMAIN records :
                /\ records[k].hazard_type = KindOfPoint(GateOf(c, p).type)
                /\ Len(records[k].hazard_gates) = 1
                /\ records[k].hazard_gates[1].gate_id = p
                /\ records[k].hazard_gates[1].hazard_type = KindOfPoint(GateOf(c, p).type)

\* the candidate variables of the circuit, as the pre-check lists them
Candidates == _find_variables_with_negation(Circuit, det_paths)

PairsOf(h) == {<<h.variable, h.hazard_gates[k].gate_id>> : k \in DOMAIN h.hazard_gates}

C22_CycleSurfacesFromDetection ==
    (det_result # NoResult /\ HasCycle(Circuit)) =>
        /\ det_result.hazard_error
        /\ det_result.kind # "detection"

(* Properties of the symbolic gate function *)

GateOutputRan == comp_result.kind = "gate_output"

\* how many of the values are v
CountOf(values, v) == Cardinality({i \in DOMAIN values : values[i] = v})

\* the AND rule as stated, and with zero and one swapped the OR rule: the
\* dominant constant if it is present; else the dominant constant if a literal and
\* a negated literal are both present; else the token if there is exactly one
\* symbolic token and every other value is the neutral constant; else the neutral
\* constant if every value is the neutral constant; else the dominant constant
StatedOutput(values, dominant, neutral) ==
    IF CountOf(values, dominant) > 0 THEN dominant
    ELSE IF CountOf(values, "X") > 0 /\ CountOf(values, "~X") > 0 THEN dominant
    ELSE IF CountOf(values, "X") + CountOf(values, "~X") = 1
            /\ CountOf(values, neutral) = Len(values) - 1
    THEN (IF CountOf(values, "X") = 1 THEN "X" ELSE "~X")
    ELSE IF CountOf(values, neutral) = Len(values) THEN neutral
    ELSE dominant

\* the NOT rule as stated
StatedNegation(v) ==
    CASE v = "X" -> "~X"
      [] v = "~X" -> "X"
      [] v = "0" -> "1"
      [] v = "1" -> "0"

\* C23: the symbolic gate function returns, for an AND gate, 0 if any input is
\* 0, else 0 if a literal and a negated literal are both present, else the token
\* if exactly one symbolic token is present and every other input is 1, else 1
\* if all inputs are 1, else 0 (two or more tokens of one form give 0); for an
\* OR gate the dual with 0 and 1 swapped; for a NOT gate the literal for the
\* negated literal, the negated literal for the literal and 1 - c for constant c.
C23_SymbolicGateFunction ==
    GateOutputRan =>
        /\ gates[1].type = "AND"
              => comp_result.output = StatedOutput(comp_result.values, "0", "1")
        /\ gates[1].type = "OR"
              => comp_result.output = StatedOutput(comp_result.values, "1", "0")
        /\ (gates[1].type = "NOT" /\ Len(comp_result.values) = 1)
              => comp_result.output = StatedNegation(comp_result.values[1])

(* Properties of the path search *)

\* path is a simple path along connections from a primary input to n
IsSimplePathTo(c, path, n) ==
    /\ path # <<>>
    /\ path[1] \in InputIdSet(c)
    /\ path[Len(path)] = n
    /\ \A i \in 1..(Len(path) - 1) : Connected(c, path[i], path[i + 1])
    /\ \A i \in DOMAIN path : \A j \in DOMAIN path : i # j => path[i] # path[j]

\* the simple paths from a primary input to n that stay clear of the nodes in
\* avoid: n alone when n is a primary input, else the paths to a source of a
\* connection into n, continued to n
RECURSIVE SimplePathsTo(_, _, _)
SimplePathsTo(c, n, avoid) ==
    IF n \in InputIdSet(c) THEN {<<n>>}
    ELSE UNION {{Append(p, n) : p \in SimplePathsTo(c, m, avoid \cup {n})} :
                   m \in {c.connections[i].from :
                             i \in {k \in DOMAIN c.connections : c.connections[k].to = n}}
                        \ (avoid \cup {n})}

OperandsFirstSeen(ws) ==
    DictKeys(SelectSeq([i \in DOMAIN ws |-> upper(ws[i])], IsOperandWord))

\* C25: in the circuit parse returns, the primary inputs are registered once per
\* distinct operand, in the order in which the operands first appear in the
\* expression, with id the lowercased token and display name the token.
C25_InputsInFirstSeenOrder ==
    HasCircuit =>
        /\ Len(inputs) = Len(OperandsFirstSeen(expression))
        /\ \A i \in DOMAIN inputs :
              /\ inputs[i].id = Str(lower(OperandsFirstSeen(expression)[i]))
              /\ inputs[i].name = Str(OperandsFirstSeen(expression)[i])

(* Properties of the operations step by step *)

Returned26 == comp_result.kind = "returned"

\* the locals of a running call stay within the size of the circuit: the while
\* loop of the sort has taken no more turns than there are gates, and dfs is no
\* more calls deep than there are nodes, plus the call that returns at once
LocalsBounded ==
    Running =>
        /\ Len(comp_result.sorted_gates) <= Len(gates)
        /\ Len(comp_result.queue) <= Len(gates)
        /\ Len(comp_result.stack) <= Cardinality(AllNodes(Circuit)) + 1

\* C26: every core operation (topological sort, compute_circuit, path search,
\* race detection, detect_hazards) terminates on every finite circuit, cyclic
\* ones included: a call that has started returns or raises, its loop takes no
\* more turns than the circuit has gates and its recursion is no deeper than the
\* circuit has nodes.
C26_OperationsTerminate ==
    /\ []LocalsBounded
    /\ Running ~> Returned26

\* detect_hazards and the path search have ended on a circuit with a cycle
C26_Witness ==
    /\ Returned26
    /\ HasCycle(Circuit)
    /\ comp_result.op \in {"detect", "paths"}
    /\ comp_result.memo # {}

(* Properties of the order of the symbolic pass *)

\* what each gate reads in the second loop of the pass, in the order of the
\* loop: the id of the gate, the source of each port that has one and the value
\* read for it
RECURSIVE InputsSeen(_, _, _)
InputsSeen(c, order, circuit_state) ==
    IF order = <<>> THEN <<>>
    ELSE LET gate == GateOf(c, Head(order))
             cs == SelectSeq(c.connections, LAMBDA conn : conn.to = gate.id)
             gate_inputs == _collect_gate_inputs(c, gate.id, circuit_state)
         IN <<[gate_id |-> gate.id,
               sources |-> AssignPorts(gate.inputs, [i \in DOMAIN cs |-> cs[i].from], <<>>),
               gate_inputs |-> gate_inputs]>>
            \o InputsSeen(c, Tail(order),
                   [n \in DOMAIN circuit_state \cup {gate.id} |->
                       IF n = gate.id THEN _compute_special_gate_output(gate, gate_inputs)
                       ELSE circuit_state[n]])

\* the reads of the pass for the variable under one assignment of the other inputs
ReadsOfPass(c, inp, other_inputs) ==
    InputsSeen(c, _reverse_topological_sort(c).val, InitialState(inp.id, other_inputs))

\* C27: on an acyclic circuit the symbolic pass processes each gate before every
\* gate that feeds it, so the value read for a port fed by another gate is the
\* default 0 and no gate reads a negated literal; _detect_hazards_by_expression
\* then returns an empty list, and every hazard detect_hazards returns is one of
\* _check_direct_hazards.
C27_PassRunsAgainstTheSignals ==
    (DetectionSucceeded /\ Acyclic(Circuit)) =>
        /\ \A i \in DOMAIN gates : \A j \in DOMAIN gates :
              GateConnection(Circuit, gates[i].id, gates[j].id)
                  => IndexOf(_reverse_topological_sort(Circuit).val, gates[j].id)
                        < IndexOf(_reverse_topological_sort(Circuit).val, gates[i].id)
        /\ \A i \in {x \in DOMAIN inputs : DirectNotGates(Circuit, inputs[x].id) # <<>>} :
           \A other_inputs \in CombinationsFor(Circuit, inputs[i]) :
              \A k \in DOMAIN ReadsOfPass(Circuit, inputs[i], other_inputs) :
                 \A p \in DOMAIN ReadsOfPass(Circuit, inputs[i], other_inputs)[k].gate_inputs :
                    /\ ReadsOfPass(Circuit, inputs[i], other_inputs)[k].gate_inputs[p].value # "~X"
                    /\ ReadsOfPass(Circuit, inputs[i], other_inputs)[k].sources[p].source
                           \in GateIdSet(Circuit)
                          => ReadsOfPass(Circuit, inputs[i], other_inputs)[k].gate_inputs[p].value = "0"
        /\ _detect_hazards_by_expression(Circuit, det_paths).val = <<>>
        /\ \E set_order \in SetOrders(Circuit) :
              det_result.hazards = _check_direct_hazards(Circuit, det_paths, set_order)

\* detect_hazards has returned a hazard on an acyclic circuit in which a gate is
\* fed by a candidate variable and by the NOT gate of that variable
C27_Witness ==
    /\ DetectionSucceeded
    /\ Acyclic(Circuit)
    /\ det_result.hazards # <<>>
    /\ \E i \in DOMAIN inputs : \E g \in DOMAIN gates :
          FedByVariableAndItsNot(Circuit, inputs[i], gates[g])

(* Properties of the circuits parse returns *)

\* every gate input port, every connection source and the source of every
\* output is the id of a primary input or of a gate of the circuit
WellFormed(c) ==
    /\ \A g \in DOMAIN c.gates :
          SeqToSet(c.gates[g].inputs) \subseteq InputIdSet(c) \cup GateIdSet(c)
    /\ \A k \in DOMAIN c.connections :
          c.connections[k].from \in InputIdSet(c) \cup GateIdSet(c)
    /\ \A o \in DOMAIN c.outputs :
          c.outputs[o].source \in InputIdSet(c) \cup GateIdSet(c)

\* C28: every circuit parse returns, for any expression it accepts (operands
\* with digits, two operands with no operator between them and an extra closing
\* parenthesis included), is well-formed: every gate input port, every
\* connection source and the source of the output is the id of a primary input
\* or of a gate of the circuit, and compute_circuit succeeds on it for every
\* full 0/1 assignment of its inputs.
C28_ParsedCircuitWellFormed ==
    HasCircuit =>
        /\ WellFormed(Circuit)
        /\ (EvaluationRan /\ comp_result.given
            /\ DOMAIN comp_result.input_values = InputIdSet(Circuit))
              => comp_result.ok

\* the tokens of an expression whose keywords are operators only as whole words:
\* one token per word, the symbol of the keyword or the upper-cased operand
WholeWordTokens(ws) ==
    [i \in DOMAIN ws |->
        CASE upper(ws[i]) = KwAnd -> <<"&">>
          [] upper(ws[i]) = KwOr -> <<"|">>
          [] upper(ws[i]) = KwNot -> <<"!">>
          [] OTHER -> upper(ws[i])]

\* C29: tokenization treats AND, OR and NOT as operators only where they stand
\* as whole words: an operand whose name contains a keyword as a substring is
\* kept as one operand token, and becomes one primary input of the circuit
\* returned.
C29_KeywordsAreWholeWords ==
    ParseRan =>
        /\ _tokenize(JoinWords(expression)) = WholeWordTokens(expression)
        /\ HasCircuit => OperandIds(expression) \subseteq InputIdSet(Circuit)

\* C30: parsing is independent of the earlier calls of parse on the same
\* CircuitParser: after any sequence of calls, successful or failed, parsing an
\* expression ends as it ends on a fresh parser and yields the same circuit,
\* with the same gate ids starting at g1.
C30_ParseIndependentOfHistory ==
    ParseRan =>
        /\ parse_result.outcome = parse(JoinWords(expression), 0).outcome
        /\ HasCircuit => Circuit = parse(JoinWords(expression), 0).circuit

============================================================================
